---- MODULE Spec2Model ----
(***************************************************************************)
(* Verification model of the market-data engine's data plane:              *)
(*   - SPSCQueue / MarketDataQueue   (core/lock_free_queue.hpp)            *)
(*   - MarketDataAggregator          (feed_handler/order_book.cpp)         *)
(*   - OrderBook                     (feed_handler/order_book.cpp)         *)
(* Every atomic load/store of the lock-free queue is one step of the       *)
(* thread that performs it, so TLC explores every interleaving of the      *)
(* producer thread, the consumer thread and the controlling thread.        *)
(***************************************************************************)
EXTENDS Integers, Sequences, FiniteSets, TLC

(***************************************************************************)
(* Bounds of the model.                                                    *)
(***************************************************************************)
\* log2 of the ring's template parameter Size (a power of two).
SizeLog2 == 2
\* How many items the producer offers beyond Size (so that "full" happens).
ExtraItems == 2
\* Largest price used by book operations (prices are 1..MaxPrice).
MaxPrice == 3
\* Largest quantity of one book operation.
MaxQty == 2
\* Number of book operations in one run of the order-book specification.
MaxOps == 3
\* Width in bits of the model's machine word: uint64_t and int64_t values
\* are WordBits wide, so that wraparound is within reach of small inputs.
WordBits == 8
\* Number of trades in one run of the statistics specification.
MaxTrades == 4
\* Largest quantity of one trade of the statistics specification.
MaxStatQty == 3
\* Number of quotes in one run of the statistics specification.
MaxStatQuotes == 1
\* Number of threads that call the OrderBookManager.
NumMgrThreads == 2
\* Number of manager calls in one run.
MaxMgrCalls == 4
\* Largest value of the clock.
MaxClock == 2
\* The max_age clear_stale_books is called with.
MaxAge == 1
\* Largest max_count dequeue_batch is called with.
MaxBatch == 3
\* Number of threads that push into the MPSCQueue.
NumProducers == 2
\* Number of try_push calls on the MPSCQueue in one run: enough to fill the
\* ring once, have a push rejected, and fill it a second time.
MaxMpscPushes == 9
\* Capacity of FixParser::fields_ (256 in the source), scaled.
MAX_FIELDS == 5
\* parse_message calls of one run.
MaxParses == 3
\* Threads calling update_latency, and their calls in one run.
NumMetricThreads == 2
MaxLatencyCalls == 3

Size == 2^SizeLog2
MaxItems == Size + ExtraItems

VARIABLES
    \* ---- SPSCQueue<T, Size> / MarketDataQueue
    head_,              \* std::atomic<size_t> head_
    tail_,              \* std::atomic<size_t> tail_
    buffer_,            \* std::array<T, Size> buffer_
    dropped_messages_,  \* MarketDataQueue::dropped_messages_
    \* ---- producer thread (enqueue -> try_push)
    ppc,                \* position of the producer
    p_current_tail,     \* local current_tail
    p_item,             \* the item being pushed
    p_next_seq,         \* next sequence number the producer will offer
    \* ---- consumer thread (dequeue -> try_pop)
    cpc,                \* position of the consumer inside try_pop
    c_current_head,     \* local current_head
    c_item,             \* the out-parameter item
    \* ---- observation of the calls' results
    pushed,             \* items of the try_push calls that returned true
    popped,             \* items the try_pop calls that returned true gave
    push_false,         \* number of try_push calls that returned false
    \* ---- MarketDataAggregator and its controlling thread
    running_,           \* std::atomic<bool> running_
    apc,                \* position of the processing thread
    mpc,                \* position of the thread calling start()/stop()
    applied,            \* sequence numbers handed to process_message
    enq_at_stop,        \* Len(pushed) when stop() was called
    total_updates_,     \* OrderBookManager::total_updates_
    books_,             \* the manager's map: symbol -> OrderBook
    messages_processed, \* PerformanceMetrics::messages_processed
    avg_latency_ns,     \* PerformanceMetrics::avg_latency_ns
    max_latency_ns,     \* PerformanceMetrics::max_latency_ns
    \* ---- one OrderBook
    bids_,              \* PriceLevelMap bids_
    asks_,              \* PriceLevelMap asks_
    cached_best_bid_,   \* std::atomic<Price> cached_best_bid_
    cached_best_ask_,   \* std::atomic<Price> cached_best_ask_
    statistics_,        \* MarketStatistics statistics_
    \* ---- observation of the book operations
    ops,                \* number of book operations performed
    last_op,            \* the latest book operation and its arguments
    trade_log,          \* the trades update_trade was called with, in order
    \* ---- MPSCQueue<T, Size>
    mpsc_head_,         \* std::atomic<size_t> head_
    mpsc_tail_,         \* std::atomic<size_t> tail_
    mpsc_buffer_,       \* std::array<std::atomic<T*>, Size> buffer_
    \* ---- the producer threads of the MPSCQueue (try_push)
    mp_pc,              \* position of each producer
    mp_pos,             \* each producer's local pos
    mp_item,            \* the item each producer is pushing
    mp_next_item,       \* the next item (pointer) a producer will offer
    \* ---- the consumer thread of the MPSCQueue (try_pop)
    mc_pc,              \* position of the consumer
    mc_pos,             \* local pos
    mc_item,            \* the out-parameter item
    \* ---- observation of the MPSCQueue calls' results
    mpsc_pushed,        \* items of the try_push calls that returned true
    mpsc_popped,        \* items the try_pop calls that returned true gave
    mpsc_push_false,    \* number of try_push calls that returned false
    \* ---- a call of MarketDataQueue::dequeue_batch
    b_max_count,        \* the argument max_count
    b_count,            \* local count
    b_msgs,             \* msgs[0 .. count-1], the part of msgs written
    b_start,            \* observation: the queue when the call began
    \* ---- OrderBookManager under calls from several threads
    active_symbols_,    \* std::atomic<uint64_t> active_symbols_
    last_update,        \* statistics_.last_update of every OrderBook made
    destroyed,          \* the OrderBooks erased from books_ (destructed)
    books_created,      \* number of OrderBooks inserted into books_ so far
    clock,              \* the value now() returns
    t_pc,               \* position of each thread inside its manager call
    t_symbol,           \* the symbol argument of each thread's call
    t_book,             \* the OrderBook* each thread holds
    t_inserted,         \* get_or_create_book's local inserted
    t_stale,            \* clear_stale_books' local stale_symbols
    t_cutoff,           \* clear_stale_books' local cutoff_time
    mgr_calls,          \* number of manager calls begun
    use_after_erase,    \* observation: a destroyed OrderBook was used
    \* ---- one OrderBook mutated step by step, and a reader of its caches
    w_pc,               \* position of the aggregator inside a mutation
    w_op,               \* the mutation in progress and its arguments
    r_bid,              \* the reader's latest get_best_bid()
    r_ask,              \* the reader's latest get_best_ask()
    r_at,               \* observation: where in the mutation in progress
                        \* the reader last read, and which side
    valid_bids,         \* observation: best bids of the books mutations left
    valid_asks,         \* observation: best asks of the books mutations left
    \* ---- FixParser
    field_count_,       \* number of entries of fields_ in use
    fields_,            \* std::array<FixField, MAX_FIELDS>
    tag_cache_,         \* std::array<std::string_view, 512>, by tag number
    messages_parsed_,   \* metric: frames accepted
    parse_errors_,      \* metric: frames rejected
    fix_calls,          \* observation: parse_message calls made
    fix_last,           \* observation: the last call, its frame and result
    \* ---- threads calling PerformanceMetrics::update_latency
    ul_pc,              \* position of each thread inside update_latency
    ul_sample,          \* argument latency_ns
    ul_current_avg,     \* local current_avg
    ul_current_max,     \* local current_max
    ul_entry,           \* observation: the metrics when the call began
    ul_alone,           \* observation: no other call overlapped this one
    ul_recorded,        \* observation: samples of the calls that returned
    ul_calls,           \* observation: calls that returned
    \* ---- a third thread calling SPSCQueue::size() / empty()
    s_pc,               \* position inside size() / empty()
    s_first,            \* the index size() / empty() loaded first
    s_result,           \* the latest call of size() / empty() and its result
    s_counts,           \* observation: item counts the queue had during the call
    \* ---- a book's statistics, their writer and a summary reader
    stats_mutex_,       \* OrderBook::stats_mutex_: the thread holding it
    sw_pc,              \* position of the aggregator inside update_trade
    sw_trade,           \* the trade being applied
    sw_value,           \* locals old_total_value and new_trade_value
    sr_pc,              \* position of the reader after get_statistics()
    sr_volume,          \* stats.total_volume as the reader read it
    sr_count,           \* stats.trade_count as the reader read it
    sr_in_update,       \* observation: a field was read while the writer
                        \* held stats_mutex_
    \* ---- a thread reading the depth of the book
    d_at                \* observation: w_pc when get_bids/get_asks last read,
                        \* and the prices they returned

qvars == <<head_, tail_, buffer_, dropped_messages_, ppc, p_current_tail,
           p_item, p_next_seq, cpc, c_current_head, c_item, pushed, popped,
           push_false>>
aggvars == <<running_, apc, mpc, applied, enq_at_stop, total_updates_,
             books_, messages_processed, avg_latency_ns, max_latency_ns>>
bookvars == <<bids_, asks_, cached_best_bid_, cached_best_ask_, statistics_>>
obsvars == <<ops, last_op, trade_log>>
mpscvars == <<mpsc_head_, mpsc_tail_, mpsc_buffer_, mp_pc, mp_pos, mp_item,
              mp_next_item, mc_pc, mc_pos, mc_item, mpsc_pushed, mpsc_popped,
              mpsc_push_false>>
batchvars == <<b_max_count, b_count, b_msgs, b_start>>
fixvars == <<field_count_, fields_, tag_cache_, messages_parsed_, parse_errors_,
             fix_calls, fix_last>>
rdvars == <<w_pc, w_op, r_bid, r_ask, r_at, valid_bids, valid_asks>>
mgrvars == <<active_symbols_, last_update, destroyed, books_created, clock,
             t_pc, t_symbol, t_book, t_inserted, t_stale, t_cutoff, mgr_calls,
             use_after_erase>>
metricvars == <<ul_pc, ul_sample, ul_current_avg, ul_current_max, ul_entry,
                ul_alone, ul_recorded, ul_calls>>
sizevars == <<s_pc, s_first, s_result, s_counts>>
statvars == <<stats_mutex_, sw_pc, sw_trade, sw_value, sr_pc, sr_volume, sr_count,
              sr_in_update>>
depthvars == <<d_at>>
threadvars == <<metricvars, sizevars, statvars, depthvars>>
vars == <<qvars, aggvars, bookvars, obsvars, mpscvars, batchvars, mgrvars, rdvars,
          fixvars, threadvars>>

(***************************************************************************)
(* Messages.  The generator numbers its messages 1, 2, 3, ... and never    *)
(* retries a rejected one, so the content of a message is a function of    *)
(* its sequence number; the kinds cycle through the message types.         *)
(***************************************************************************)
MessageTypes == <<"TRADE", "QUOTE", "ORDER_ADD", "ORDER_MODIFY", "ORDER_DELETE",
                  "BOOK_SNAPSHOT">>

\* MarketDataMessage(): every field zero, type TRADE.
DefaultMessage ==
    [sequence_number |-> 0, type |-> "TRADE",
     trade_data |-> [price |-> 0, quantity |-> 0],
     quote_data |-> [bid_price |-> 0, ask_price |-> 0,
                     bid_size |-> 0, ask_size |-> 0]]

\* The message the generator builds for sequence number seq.
MakeMessage(seq) ==
    [sequence_number |-> seq,
     type |-> MessageTypes[((seq - 1) % Len(MessageTypes)) + 1],
     trade_data |-> [price |-> 1 + (seq % MaxPrice),
                     quantity |-> 1 + (seq % MaxQty)],
     quote_data |-> [bid_price |-> seq % (MaxPrice + 1),
                     ask_price |-> MaxPrice,
                     bid_size |-> 1 + (seq % MaxQty),
                     ask_size |-> seq % (MaxQty + 1)]]

(***************************************************************************)
(* SPSCQueue<T, Size>                                                      *)
(***************************************************************************)
\* x & mask_ for mask_ = Size - 1, Size a power of two (size_t arithmetic).
Mask(x) == x % Size

\* try_push's full test: next_tail == head_.load(acquire).
IsFullMutant(next_tail, head) == Mask(next_tail + 1) = head
IsFullNever(next_tail, head) == FALSE
IsFull(next_tail, head) == next_tail = head

\* try_pop's empty test: current_head == tail_.load(acquire).
IsEmptyMutant(current_head, tail) == FALSE
IsEmpty(current_head, tail) == current_head = tail

\* The slot try_pop moves the item out of: buffer_[current_head].
PopSlotMutant(current_head) == Mask(current_head + 1)
PopSlot(current_head) == current_head

\* The slot try_push stores the item into: buffer_[current_tail].
PushSlotMutant(current_tail) == Mask(current_tail + 1)
PushSlot(current_tail) == current_tail

\* SPSCQueue::size(): (t - h) & mask_.
QueueSize == Mask(tail_ - head_)

\* SPSCQueue::capacity(): Size - 1.
Capacity == Size - 1

\* Observation: the number of items the queue holds (accepted and not yet
\* popped) after every step taken while a call of size() / empty() runs.
ObserveCount ==
    /\ s_counts' = IF s_pc = "idle" THEN s_counts
                   ELSE s_counts \cup {Len(pushed') - Len(popped')}
    /\ UNCHANGED <<s_pc, s_first, s_result>>

\* ---- producer thread: MarketDataQueue::enqueue -> SPSCQueue::try_push
\* const size_t current_tail = tail_.load(relaxed)
TryPushBegin ==
    /\ ppc = "idle"
    /\ p_next_seq <= MaxItems
    /\ p_item' = MakeMessage(p_next_seq)
    /\ p_next_seq' = p_next_seq + 1
    /\ p_current_tail' = tail_
    /\ ppc' = "check"
    /\ UNCHANGED <<head_, tail_, buffer_, dropped_messages_, cpc,
                   c_current_head, c_item, pushed, popped, push_false>>

\* if (next_tail == head_.load(acquire)) return false;
TryPushCheck ==
    /\ ppc = "check"
    /\ IF IsFull(Mask(p_current_tail + 1), head_)
       THEN /\ ppc' = "drop"
            /\ push_false' = push_false + 1
       ELSE /\ ppc' = "write"
            /\ UNCHANGED push_false
    /\ UNCHANGED <<head_, tail_, buffer_, dropped_messages_, p_current_tail,
                   p_item, p_next_seq, cpc, c_current_head, c_item, pushed,
                   popped>>

\* buffer_[current_tail] = std::move(item)
TryPushWrite ==
    /\ ppc = "write"
    /\ buffer_' = [buffer_ EXCEPT ![PushSlot(p_current_tail)] = p_item]
    /\ ppc' = "store"
    /\ UNCHANGED <<head_, tail_, dropped_messages_, p_current_tail, p_item,
                   p_next_seq, cpc, c_current_head, c_item, pushed, popped,
                   push_false>>

\* tail_.store(next_tail, release); return true;
TryPushStore ==
    /\ ppc = "store"
    /\ tail_' = Mask(p_current_tail + 1)
    /\ pushed' = Append(pushed, p_item)
    /\ ppc' = "idle"
    /\ UNCHANGED <<head_, buffer_, dropped_messages_, p_current_tail, p_item,
                   p_next_seq, cpc, c_current_head, c_item, popped,
                   push_false>>

\* The increment enqueue makes when try_push returned false.
DropIncrementMutant(d) == d
DropIncrement(d) == d + 1

\* dropped_messages_.fetch_add(1, relaxed); return false;
EnqueueDrop ==
    /\ ppc = "drop"
    /\ dropped_messages_' = DropIncrement(dropped_messages_)
    /\ ppc' = "idle"
    /\ UNCHANGED <<head_, tail_, buffer_, p_current_tail, p_item, p_next_seq,
                   cpc, c_current_head, c_item, pushed, popped, push_false>>

Producer ==
    /\ (TryPushBegin \/ TryPushCheck \/ TryPushWrite \/ TryPushStore
        \/ EnqueueDrop)
    /\ UNCHANGED <<aggvars, bookvars, obsvars, mpscvars, batchvars, mgrvars, rdvars,
                   fixvars, metricvars, statvars, depthvars>>
    /\ ObserveCount

\* ---- consumer thread: MarketDataQueue::dequeue -> SPSCQueue::try_pop
\* const size_t current_head = head_.load(relaxed)
TryPopBegin ==
    /\ apc \in {"consumer", "dequeue"}
    /\ cpc = "idle"
    /\ c_current_head' = head_
    /\ cpc' = "check"
    /\ UNCHANGED <<head_, tail_, buffer_, dropped_messages_, ppc,
                   p_current_tail, p_item, p_next_seq, c_item, pushed, popped,
                   push_false>>
    /\ UNCHANGED <<aggvars, bookvars, obsvars, mpscvars, batchvars, mgrvars, rdvars,
                   fixvars, metricvars, statvars, depthvars>>
    /\ ObserveCount

\* if (current_head == tail_.load(acquire)) return false;
\* The caller continues at onFalse when try_pop returned false.
TryPopCheck(onFalse) ==
    /\ cpc = "check"
    /\ IF IsEmpty(c_current_head, tail_)
       THEN /\ cpc' = "idle"
            /\ apc' = onFalse
       ELSE /\ cpc' = "read"
            /\ UNCHANGED apc
    /\ UNCHANGED <<head_, tail_, buffer_, dropped_messages_, ppc,
                   p_current_tail, p_item, p_next_seq, c_current_head, c_item,
                   pushed, popped, push_false>>
    /\ UNCHANGED <<running_, mpc, applied, enq_at_stop, total_updates_,
                   books_, messages_processed, avg_latency_ns,
                   max_latency_ns>>
    /\ UNCHANGED <<bookvars, obsvars, mpscvars, batchvars, mgrvars, rdvars,
                   fixvars, metricvars, statvars, depthvars>>
    /\ ObserveCount

\* item = std::move(buffer_[current_head])
TryPopRead ==
    /\ cpc = "read"
    /\ c_item' = buffer_[PopSlot(c_current_head)]
    /\ cpc' = "store"
    /\ UNCHANGED <<head_, tail_, buffer_, dropped_messages_, ppc,
                   p_current_tail, p_item, p_next_seq, c_current_head, pushed,
                   popped, push_false>>
    /\ UNCHANGED <<aggvars, bookvars, obsvars, mpscvars, batchvars, mgrvars, rdvars,
                   fixvars, metricvars, statvars, depthvars>>
    /\ ObserveCount

\* head_.store((current_head + 1) & mask_, release); return true;
\* The caller continues at onTrue.
TryPopStore(onTrue) ==
    /\ cpc = "store"
    /\ head_' = Mask(c_current_head + 1)
    /\ popped' = Append(popped, c_item)
    /\ cpc' = "idle"
    /\ apc' = onTrue
    /\ UNCHANGED <<tail_, buffer_, dropped_messages_, ppc, p_current_tail,
                   p_item, p_next_seq, c_current_head, c_item, pushed,
                   push_false>>
    /\ UNCHANGED <<running_, mpc, applied, enq_at_stop, total_updates_,
                   books_, messages_processed, avg_latency_ns,
                   max_latency_ns>>
    /\ UNCHANGED <<bookvars, obsvars, mpscvars, batchvars, mgrvars, rdvars,
                   fixvars, metricvars, statvars, depthvars>>
    /\ ObserveCount

\* ---- a third thread calling size() or empty() (the statistics printer
\* calls utilization(), which calls size()).
\* size(): const size_t h = head_.load(acquire).
SizeLoadHead ==
    /\ s_pc = "idle"
    /\ s_first' = head_
    /\ s_pc' = "size"
    /\ s_counts' = {Len(pushed) - Len(popped)}
    /\ UNCHANGED s_result

\* size(): const size_t t = tail_.load(acquire); return (t - h) & mask_.
SizeLoadTail ==
    /\ s_pc = "size"
    /\ s_result' = [call |-> "size", value |-> Mask(tail_ - s_first)]
    /\ s_pc' = "idle"
    /\ UNCHANGED <<s_first, s_counts>>

\* empty(): the operand of == that is evaluated first; the order of the two
\* loads is unspecified.
EmptyLoadFirst ==
    /\ s_pc = "idle"
    /\ \E first \in {"head", "tail"} :
          /\ s_first' = IF first = "head" THEN head_ ELSE tail_
          /\ s_pc' = IF first = "head" THEN "empty_tail" ELSE "empty_head"
    /\ s_counts' = {Len(pushed) - Len(popped)}
    /\ UNCHANGED s_result

\* empty(): the other load, and the comparison.
EmptyLoadSecond ==
    /\ s_pc \in {"empty_tail", "empty_head"}
    /\ s_result' = [call |-> "empty",
                    value |-> IF s_pc = "empty_tail" THEN s_first = tail_
                              ELSE head_ = s_first]
    /\ s_pc' = "idle"
    /\ UNCHANGED <<s_first, s_counts>>

StatusReader ==
    /\ (SizeLoadHead \/ SizeLoadTail \/ EmptyLoadFirst \/ EmptyLoadSecond)
    /\ UNCHANGED <<qvars, aggvars, bookvars, obsvars, mpscvars, batchvars,
                   mgrvars, rdvars, fixvars, metricvars, statvars, depthvars>>

\* A consumer thread that calls dequeue over and over.
Consumer ==
    \/ TryPopBegin
    \/ TryPopCheck("consumer")
    \/ TryPopRead
    \/ TryPopStore("consumer")

\* ---- consumer thread: MarketDataQueue::dequeue_batch
\* The loop condition's first conjunct: count < max_count.
BatchContinuesMutant(count, max_count) == count <= max_count
BatchContinues(count, max_count) == count < max_count

\* size_t count = 0;  (the call begins; the queue as it is now is noted)
DequeueBatchBegin ==
    \E max_count \in 0..MaxBatch :
        /\ apc = "batch_idle"
        /\ b_max_count' = max_count
        /\ b_count' = 0
        /\ b_msgs' = << >>
        /\ b_start' = [n |-> QueueSize, popped |-> Len(popped),
                       next_seq |-> p_next_seq, idle |-> (ppc = "idle")]
        /\ apc' = "batch_loop"
        /\ UNCHANGED <<running_, mpc, applied, enq_at_stop, total_updates_,
                       books_, messages_processed, avg_latency_ns,
                       max_latency_ns>>
        /\ UNCHANGED <<qvars, bookvars, obsvars, mpscvars, mgrvars, rdvars, fixvars, threadvars>>

\* while (count < max_count && queue_.try_pop(msgs[count]))
DequeueBatchLoop ==
    /\ apc = "batch_loop"
    /\ apc' = IF BatchContinues(b_count, b_max_count)
              THEN "dequeue" ELSE "batch_return"
    /\ UNCHANGED <<running_, mpc, applied, enq_at_stop, total_updates_,
                   books_, messages_processed, avg_latency_ns,
                   max_latency_ns>>
    /\ UNCHANGED <<qvars, bookvars, obsvars, mpscvars, batchvars, mgrvars, rdvars, fixvars, threadvars>>

\* try_pop returned true with msgs[count] written:  ++count;
DequeueBatchCount ==
    /\ apc = "batch_got"
    /\ b_msgs' = Append(b_msgs, c_item)
    /\ b_count' = b_count + 1
    /\ apc' = "batch_loop"
    /\ UNCHANGED <<b_max_count, b_start>>
    /\ UNCHANGED <<running_, mpc, applied, enq_at_stop, total_updates_,
                   books_, messages_processed, avg_latency_ns,
                   max_latency_ns>>
    /\ UNCHANGED <<qvars, bookvars, obsvars, mpscvars, mgrvars, rdvars, fixvars, threadvars>>

\* return count;
DequeueBatchReturn ==
    /\ apc = "batch_return"
    /\ apc' = "batch_idle"
    /\ UNCHANGED <<running_, mpc, applied, enq_at_stop, total_updates_,
                   books_, messages_processed, avg_latency_ns,
                   max_latency_ns>>
    /\ UNCHANGED <<qvars, bookvars, obsvars, mpscvars, batchvars, mgrvars, rdvars, fixvars, threadvars>>

\* A consumer thread that calls dequeue_batch over and over.
BatchConsumer ==
    \/ DequeueBatchBegin
    \/ DequeueBatchLoop
    \/ TryPopBegin
    \/ TryPopCheck("batch_return")
    \/ TryPopRead
    \/ TryPopStore("batch_got")
    \/ DequeueBatchCount
    \/ DequeueBatchReturn

(***************************************************************************)
(* OrderBook.  A PriceLevelMap is a function from the prices that have a   *)
(* level to the OrderBookLevel stored there.  The book's state is its two  *)
(* level maps, the best-price caches and the statistics; the performance   *)
(* counters update_count_ and total_latency_ns_ (clock readings) are not   *)
(* part of it.                                                             *)
(***************************************************************************)
\* Well-formed arguments of add_order, modify_order and delete_order:
\* positive prices and positive quantities.
Prices == 1..MaxPrice
Quantities == 1..MaxQty
Sides == {"BUY", "SELL"}

\* std::map<Price, OrderBookLevel> with no entries.
EmptyLevels == [p \in {} |-> 0]

\* OrderBookLevel(Price p, Quantity q, uint32_t count = 1)
OrderBookLevel(p, q, count) == [price |-> p, quantity |-> q, order_count |-> count]

\* levels.erase(it)
EraseLevel(levels, price) == [p \in (DOMAIN levels) \ {price} |-> levels[p]]

\* levels[price] = level
PutLevel(levels, price, level) ==
    [p \in (DOMAIN levels) \cup {price} |-> IF p = price THEN level ELSE levels[p]]

SetMax(S) == CHOOSE x \in S : \A y \in S : y <= x
SetMin(S) == CHOOSE x \in S : \A y \in S : x <= y

\* OrderBook::find_or_create_level: emplace(price, OrderBookLevel(price, 0)).
find_or_create_level(levels, price) ==
    IF price \in DOMAIN levels
    THEN levels
    ELSE PutLevel(levels, price, OrderBookLevel(price, 0, 1))

\* OrderBook::update_best_prices: the pair stored into the two caches.
update_best_prices_mutant(bids, asks) ==
    << IF DOMAIN bids = {} THEN 0 ELSE SetMin(DOMAIN bids),
       IF DOMAIN asks = {} THEN 0 ELSE SetMin(DOMAIN asks) >>
update_best_prices(bids, asks) ==
    << IF DOMAIN bids = {} THEN 0 ELSE SetMax(DOMAIN bids),
       IF DOMAIN asks = {} THEN 0 ELSE SetMin(DOMAIN asks) >>

\* The level map add_order leaves: quantity += quantity; order_count++.
AddLevels(levels, price, quantity) ==
    LET l == find_or_create_level(levels, price)
    IN  [l EXCEPT ![price].quantity = @ + quantity,
                  ![price].order_count = @ + 1]

\* The level map delete_order leaves (order_book.cpp:54-66).
DeleteLevels(levels, price, quantity) ==
    IF price \in DOMAIN levels /\ levels[price].quantity >= quantity
    THEN LET q == levels[price].quantity - quantity
             c == IF levels[price].order_count > 0
                  THEN levels[price].order_count - 1
                  ELSE levels[price].order_count
         IN  IF q = 0
             THEN EraseLevel(levels, price)
             ELSE [levels EXCEPT ![price].quantity = q, ![price].order_count = c]
    ELSE levels

\* The level map modify_order leaves before its add_order (order_book.cpp:34-46).
ModifyRemoveLevels(levels, old_price, new_quantity) ==
    IF old_price \in DOMAIN levels /\ levels[old_price].quantity >= new_quantity
    THEN LET q == levels[old_price].quantity - new_quantity
             c == IF levels[old_price].order_count > 0
                  THEN levels[old_price].order_count - 1
                  ELSE levels[old_price].order_count
         IN  IF q = 0
             THEN EraseLevel(levels, old_price)
             ELSE [levels EXCEPT ![old_price].quantity = q,
                                 ![old_price].order_count = c]
    ELSE levels

\* update_level2's loop: levels[level.price] = level for each level with
\* quantity > 0, in the vector's order (a later entry overwrites).
RECURSIVE SnapshotLevels(_, _)
SnapshotLevels(levels, snapshot) ==
    IF snapshot = << >>
    THEN levels
    ELSE LET level == Head(snapshot)
         IN  SnapshotLevels(IF level.quantity > 0
                            THEN PutLevel(levels, level.price, level)
                            ELSE levels,
                            Tail(snapshot))

Max2(a, b) == IF a >= b THEN a ELSE b
Min2(a, b) == IF a <= b THEN a ELSE b

\* MarketStatistics(): every field zero.
DefaultStatistics ==
    [last_price |-> 0, high_price |-> 0, low_price |-> 0, open_price |-> 0,
     vwap |-> 0, total_volume |-> 0, trade_count |-> 0, bid_ask_spread |-> 0]

\* Unsigned and signed machine words: static_cast<uint64_t>(x) and
\* static_cast<Price>(x), two's complement.
Word == 2^WordBits
Uint(x) == x % Word
ToPrice(x) == IF Uint(x) >= Word \div 2 THEN Uint(x) - Word ELSE Uint(x)

\* MarketStatistics::update_trade: the VWAP numerator is computed in
\* uint64_t, so the products and their sum wrap modulo 2^64.
StatsUpdateTradeMutant(s, price, quantity) ==
    [s EXCEPT !.last_price = price,
              !.open_price = IF s.trade_count = 0 THEN price ELSE @,
              !.high_price = Max2(@, price),
              !.low_price = Min2(@, price),
              !.total_volume = Uint(s.total_volume + quantity),
              !.trade_count = @ + 1]
StatsUpdateTrade(s, price, quantity) ==
    LET old_total_value == Uint(Uint(s.vwap) * s.total_volume)
        new_trade_value == Uint(Uint(price) * quantity)
        volume == Uint(s.total_volume + quantity)
    IN  [s EXCEPT
           !.last_price = price,
           !.open_price = IF s.trade_count = 0 THEN price ELSE @,
           !.high_price = IF s.trade_count = 0 THEN price ELSE Max2(@, price),
           !.low_price = IF s.trade_count = 0 THEN price ELSE Min2(@, price),
           !.total_volume = volume,
           !.trade_count = @ + 1,
           !.vwap = IF volume > 0
                    THEN ToPrice(Uint(old_total_value + new_trade_value)
                                 \div volume)
                    ELSE @]

\* MarketStatistics::update_quote
StatsUpdateQuote(s, bid, ask) == [s EXCEPT !.bid_ask_spread = ask - bid]

\* ---- the readers of the OrderBook
\* OrderBook::get_best_bid / get_best_ask: the cached values.
get_best_bid == cached_best_bid_
get_best_ask == cached_best_ask_

\* OrderBook::get_mid_price: (bid > 0 && ask > 0) ? (bid + ask) / 2 : 0
get_mid_price_mutant ==
    IF get_best_bid > 0 /\ get_best_ask > 0
    THEN (get_best_bid + get_best_ask) \div 2
    ELSE statistics_.last_price
get_mid_price ==
    IF get_best_bid > 0 /\ get_best_ask > 0
    THEN (get_best_bid + get_best_ask) \div 2
    ELSE 0

\* OrderBook::get_spread: (bid > 0 && ask > 0) ? ask - bid : 0
get_spread ==
    IF get_best_bid > 0 /\ get_best_ask > 0
    THEN get_best_ask - get_best_bid
    ELSE 0

\* The depth get_imbalance asks get_bids and get_asks for.
ImbalanceDepth == 5

\* OrderBook::get_bids(depth) / get_asks(depth): the prices of the first
\* depth levels from the highest bid, and from the lowest ask.
get_bids(depth) ==
    {p \in DOMAIN bids_ : Cardinality({q \in DOMAIN bids_ : q > p}) < depth}
get_asks(depth) ==
    {p \in DOMAIN asks_ : Cardinality({q \in DOMAIN asks_ : q < p}) < depth}

\* std::accumulate of level.quantity over the levels at the prices in S.
RECURSIVE AccumulateQuantity(_, _)
AccumulateQuantity(levels, S) ==
    IF S = {} THEN 0
    ELSE LET p == CHOOSE x \in S : TRUE
         IN  Uint(levels[p].quantity + AccumulateQuantity(levels, S \ {p}))

\* OrderBook::get_imbalance.  The double it returns is the quotient
\* num / den of two unsigned words; bid_volume - ask_volume is a uint64_t
\* subtraction.
get_imbalance ==
    LET top_bids == get_bids(ImbalanceDepth)
        top_asks == get_asks(ImbalanceDepth)
        bid_volume == AccumulateQuantity(bids_, top_bids)
        ask_volume == AccumulateQuantity(asks_, top_asks)
        total_volume == Uint(bid_volume + ask_volume)
    IN  IF top_bids = {} \/ top_asks = {}
        THEN [num |-> 0, den |-> 1]
        ELSE IF total_volume = 0
             THEN [num |-> 0, den |-> 1]
             ELSE [num |-> Uint(bid_volume - ask_volume), den |-> total_volume]

\* ---- the effects of the OrderBook operations on the book's state
\* OrderBook::add_order
BookAddOrder(price, quantity, side) ==
    LET bids == IF side = "BUY" THEN AddLevels(bids_, price, quantity) ELSE bids_
        asks == IF side = "BUY" THEN asks_ ELSE AddLevels(asks_, price, quantity)
        best == update_best_prices(bids, asks)
    IN  /\ bids_' = bids
        /\ asks_' = asks
        /\ cached_best_bid_' = best[1]
        /\ cached_best_ask_' = best[2]
        /\ UNCHANGED statistics_

\* OrderBook::modify_order: the removal at old_price, then add_order.
BookModifyOrder(old_price, new_price, new_quantity, side) ==
    LET bids == IF side = "BUY"
                THEN AddLevels(ModifyRemoveLevels(bids_, old_price, new_quantity),
                               new_price, new_quantity)
                ELSE bids_
        asks == IF side = "BUY"
                THEN asks_
                ELSE AddLevels(ModifyRemoveLevels(asks_, old_price, new_quantity),
                               new_price, new_quantity)
        best == update_best_prices(bids, asks)
    IN  /\ bids_' = bids
        /\ asks_' = asks
        /\ cached_best_bid_' = best[1]
        /\ cached_best_ask_' = best[2]
        /\ UNCHANGED statistics_

\* OrderBook::delete_order: update_best_prices only when the level was found.
BookDeleteOrder(price, quantity, side) ==
    LET levels == IF side = "BUY" THEN bids_ ELSE asks_
        bids == IF side = "BUY" THEN DeleteLevels(bids_, price, quantity) ELSE bids_
        asks == IF side = "BUY" THEN asks_ ELSE DeleteLevels(asks_, price, quantity)
        best == update_best_prices(bids, asks)
    IN  /\ bids_' = bids
        /\ asks_' = asks
        /\ IF price \in DOMAIN levels
           THEN /\ cached_best_bid_' = best[1]
                /\ cached_best_ask_' = best[2]
           ELSE UNCHANGED <<cached_best_bid_, cached_best_ask_>>
        /\ UNCHANGED statistics_

\* OrderBook::update_trade
BookUpdateTradeMutant(trade) ==
    /\ statistics_' = StatsUpdateTrade(statistics_, trade.price, trade.quantity)
    /\ cached_best_bid_' = trade.price
    /\ UNCHANGED <<bids_, asks_, cached_best_ask_>>
BookUpdateTrade(trade) ==
    /\ statistics_' = StatsUpdateTrade(statistics_, trade.price, trade.quantity)
    /\ UNCHANGED <<bids_, asks_, cached_best_bid_, cached_best_ask_>>

\* OrderBook::update_quote
BookUpdateQuoteMutant(quote) ==
    LET bids == IF quote.bid_price > 0 /\ quote.bid_size > 0
                THEN PutLevel(bids_, quote.bid_price,
                              OrderBookLevel(quote.bid_price, quote.bid_size, 1))
                ELSE bids_
        asks == IF quote.ask_price > 0 /\ quote.ask_size > 0
                THEN PutLevel(asks_, quote.ask_price,
                              OrderBookLevel(quote.ask_price, quote.ask_size, 1))
                ELSE asks_
        best == update_best_prices(bids, asks)
    IN  /\ bids_' = bids
        /\ asks_' = asks
        /\ cached_best_bid_' = best[1]
        /\ cached_best_ask_' = best[2]
        /\ statistics_' = StatsUpdateQuote(statistics_, quote.bid_price,
                                           quote.ask_price)
BookUpdateQuote(quote) ==
    LET bids == IF quote.bid_price > 0 /\ quote.bid_size > 0
                THEN PutLevel(EmptyLevels, quote.bid_price,
                              OrderBookLevel(quote.bid_price, quote.bid_size, 1))
                ELSE EmptyLevels
        asks == IF quote.ask_price > 0 /\ quote.ask_size > 0
                THEN PutLevel(EmptyLevels, quote.ask_price,
                              OrderBookLevel(quote.ask_price, quote.ask_size, 1))
                ELSE EmptyLevels
        best == update_best_prices(bids, asks)
    IN  /\ bids_' = bids
        /\ asks_' = asks
        /\ cached_best_bid_' = best[1]
        /\ cached_best_ask_' = best[2]
        /\ statistics_' = StatsUpdateQuote(statistics_, quote.bid_price,
                                           quote.ask_price)

\* OrderBook::update_level2
BookUpdateLevel2Mutant(bids, asks) ==
    LET b == SnapshotLevels(bids_, bids)
        a == SnapshotLevels(asks_, asks)
        best == update_best_prices(b, a)
    IN  /\ bids_' = b
        /\ asks_' = a
        /\ cached_best_bid_' = best[1]
        /\ cached_best_ask_' = best[2]
        /\ UNCHANGED statistics_
BookUpdateLevel2(bids, asks) ==
    LET b == SnapshotLevels(EmptyLevels, bids)
        a == SnapshotLevels(EmptyLevels, asks)
        best == update_best_prices(b, a)
    IN  /\ bids_' = b
        /\ asks_' = a
        /\ cached_best_bid_' = best[1]
        /\ cached_best_ask_' = best[2]
        /\ UNCHANGED statistics_

(***************************************************************************)
(* The order book driven directly: any sequence of at most MaxOps          *)
(* operations with arguments from the small input sets.                    *)
(***************************************************************************)
NoOp == [op |-> "none", price |-> 0, new_price |-> 0, quantity |-> 0,
         side |-> "BUY"]

\* The vectors update_level2 is called with: at most MaxSnapshotLen levels
\* in the two vectors together.
MaxSnapshotLen == 2
SnapshotEntries ==
    {OrderBookLevel(1, MaxQty, 1), OrderBookLevel(MaxPrice, 1, 1),
     OrderBookLevel(MaxPrice, MaxQty, 1), OrderBookLevel(MaxPrice, 0, 1)}
Snapshots ==
    UNION {[1..n -> SnapshotEntries] : n \in 0..MaxSnapshotLen}

\* The quotes update_quote is called with.
Quotes ==
    [bid_price : {0, 1}, ask_price : {0, MaxPrice},
     bid_size : {0, MaxQty}, ask_size : {MaxQty}]

\* The trades update_trade is called with.
Trades == [price : {1, MaxPrice}, quantity : {MaxQty}]

add_order ==
    \E price \in Prices, quantity \in Quantities, side \in Sides :
        /\ ops < MaxOps
        /\ BookAddOrder(price, quantity, side)
        /\ ops' = ops + 1
        /\ last_op' = [op |-> "add_order", price |-> price, new_price |-> 0,
                       quantity |-> quantity, side |-> side]
        /\ UNCHANGED <<qvars, aggvars, trade_log, mpscvars, batchvars, mgrvars, rdvars, fixvars, threadvars>>

modify_order ==
    \E old_price \in Prices, new_price \in Prices, new_quantity \in Quantities,
       side \in Sides :
        /\ ops < MaxOps
        /\ BookModifyOrder(old_price, new_price, new_quantity, side)
        /\ ops' = ops + 1
        /\ last_op' = [op |-> "modify_order", price |-> old_price,
                       new_price |-> new_price, quantity |-> new_quantity,
                       side |-> side]
        /\ UNCHANGED <<qvars, aggvars, trade_log, mpscvars, batchvars, mgrvars, rdvars, fixvars, threadvars>>

delete_order ==
    \E price \in Prices, quantity \in Quantities, side \in Sides :
        /\ ops < MaxOps
        /\ BookDeleteOrder(price, quantity, side)
        /\ ops' = ops + 1
        /\ last_op' = [op |-> "delete_order", price |-> price, new_price |-> 0,
                       quantity |-> quantity, side |-> side]
        /\ UNCHANGED <<qvars, aggvars, trade_log, mpscvars, batchvars, mgrvars, rdvars, fixvars, threadvars>>

update_trade ==
    \E trade \in Trades :
        /\ ops < MaxOps
        /\ BookUpdateTrade(trade)
        /\ ops' = ops + 1
        /\ last_op' = [op |-> "update_trade", trade |-> trade]
        /\ trade_log' = Append(trade_log, trade)
        /\ UNCHANGED <<qvars, aggvars, mpscvars, batchvars, mgrvars, rdvars, fixvars, threadvars>>

update_quote ==
    \E quote \in Quotes :
        /\ ops < MaxOps
        /\ BookUpdateQuote(quote)
        /\ ops' = ops + 1
        /\ last_op' = [op |-> "update_quote", quote |-> quote]
        /\ UNCHANGED <<qvars, aggvars, trade_log, mpscvars, batchvars, mgrvars, rdvars, fixvars, threadvars>>

update_level2 ==
    \E bids \in Snapshots, asks \in Snapshots :
        /\ Len(bids) + Len(asks) <= MaxSnapshotLen
        /\ ops < MaxOps
        /\ BookUpdateLevel2(bids, asks)
        /\ ops' = ops + 1
        /\ last_op' = [op |-> "update_level2", bids |-> bids, asks |-> asks]
        /\ UNCHANGED <<qvars, aggvars, trade_log, mpscvars, batchvars, mgrvars, rdvars, fixvars, threadvars>>

(***************************************************************************)
(* One OrderBook mutated statement by statement by the aggregator thread,  *)
(* while a reader thread calls get_best_bid() and get_best_ask().  The     *)
(* level maps are written only by the aggregator; the two caches are       *)
(* atomics the reader loads.                                               *)
(***************************************************************************)
\* The mutations the aggregator applies in this specification.
ReaderOps ==
    {[op |-> "add_order", price |-> p, new_price |-> 0, quantity |-> 1,
      side |-> sd] : p \in Prices, sd \in Sides}
    \cup {[op |-> "modify_order", price |-> p, new_price |-> n, quantity |-> 1,
           side |-> sd] : p \in Prices, n \in Prices, sd \in Sides}
    \cup {[op |-> "delete_order", price |-> p, new_price |-> 0, quantity |-> 1,
           side |-> sd] : p \in Prices, sd \in Sides}
    \cup {[op |-> "update_quote", quote |-> q] :
            q \in {x \in Quotes : x.bid_size = MaxQty}}
    \cup {[op |-> "update_level2", bids |-> b, asks |-> a] :
            b \in {x \in Snapshots : Len(x) <= 1},
            a \in {x \in Snapshots : Len(x) = 0}}
    \cup {[op |-> "update_level2", bids |-> b, asks |-> a] :
            b \in {x \in Snapshots : Len(x) = 0},
            a \in {x \in Snapshots : Len(x) = 1}}

\* The first statement of each mutation.
FirstStep(op) ==
    CASE op.op = "add_order" -> "add"
      [] op.op = "modify_order" -> "remove"
      [] op.op = "delete_order" -> "delete"
      [] op.op = "update_quote" -> "clear"
      [] op.op = "update_level2" -> "clear"

\* What the two caches hold once modify_order has removed the quantity at
\* old_price: the removal does not call update_best_prices.
CachesAfterRemovalMutant(caches, bids, asks) == update_best_prices(bids, asks)
CachesAfterRemoval(caches, bids, asks) == caches

\* The aggregator enters a mutation.
WriterBegin ==
    \E op \in ReaderOps :
        /\ w_pc = "idle"
        /\ ops < MaxOps
        /\ w_op' = op
        /\ w_pc' = FirstStep(op)
        /\ UNCHANGED <<qvars, aggvars, bookvars, obsvars, mpscvars, batchvars,
                       mgrvars, r_bid, r_ask, r_at, valid_bids, valid_asks,
                   fixvars, threadvars>>

\* No read during the mutation in progress.
NoRead == [pc |-> "none", side |-> "BUY"]

\* The mutation returns.
WriterReturns ==
    /\ w_pc' = "idle"
    /\ ops' = ops + 1
    /\ last_op' = w_op
    /\ r_at' = NoRead

\* The level maps have taken the form the mutation leaves them in.
MapsWritten ==
    /\ valid_bids' = valid_bids \cup
                     {IF DOMAIN bids_' = {} THEN 0 ELSE SetMax(DOMAIN bids_')}
    /\ valid_asks' = valid_asks \cup
                     {IF DOMAIN asks_' = {} THEN 0 ELSE SetMin(DOMAIN asks_')}

\* modify_order: the removal at old_price.
WriterRemove ==
    /\ w_pc = "remove"
    /\ bids_' = IF w_op.side = "BUY"
                THEN ModifyRemoveLevels(bids_, w_op.price, w_op.quantity)
                ELSE bids_
    /\ asks_' = IF w_op.side = "BUY"
                THEN asks_
                ELSE ModifyRemoveLevels(asks_, w_op.price, w_op.quantity)
    /\ LET caches == CachesAfterRemoval(<<cached_best_bid_, cached_best_ask_>>,
                                        bids_', asks_')
       IN  /\ cached_best_bid_' = caches[1]
           /\ cached_best_ask_' = caches[2]
    /\ w_pc' = "add"
    /\ UNCHANGED <<qvars, aggvars, statistics_, obsvars, mpscvars, batchvars,
                   mgrvars, w_op, r_bid, r_ask, r_at, valid_bids, valid_asks,
                   fixvars, threadvars>>

\* add_order up to its update_best_prices(); modify_order calls it with
\* new_price.
WriterAdd ==
    /\ w_pc = "add"
    /\ LET price == IF w_op.op = "modify_order" THEN w_op.new_price
                    ELSE w_op.price
       IN  /\ bids_' = IF w_op.side = "BUY"
                       THEN AddLevels(bids_, price, w_op.quantity) ELSE bids_
           /\ asks_' = IF w_op.side = "BUY"
                       THEN asks_ ELSE AddLevels(asks_, price, w_op.quantity)
    /\ MapsWritten
    /\ w_pc' = "store_bid"
    /\ UNCHANGED <<qvars, aggvars, cached_best_bid_, cached_best_ask_,
                   statistics_, obsvars, mpscvars, batchvars, mgrvars, w_op,
                   r_bid, r_ask, r_at,
                   fixvars, threadvars>>

\* delete_order up to its update_best_prices(), which it calls only when
\* the level was found.
WriterDelete ==
    /\ w_pc = "delete"
    /\ bids_' = IF w_op.side = "BUY"
                THEN DeleteLevels(bids_, w_op.price, w_op.quantity) ELSE bids_
    /\ asks_' = IF w_op.side = "BUY"
                THEN asks_ ELSE DeleteLevels(asks_, w_op.price, w_op.quantity)
    /\ MapsWritten
    /\ IF w_op.price \in DOMAIN (IF w_op.side = "BUY" THEN bids_ ELSE asks_)
       THEN /\ w_pc' = "store_bid"
            /\ UNCHANGED <<obsvars, r_at>>
       ELSE /\ WriterReturns
            /\ UNCHANGED trade_log
    /\ UNCHANGED <<qvars, aggvars, cached_best_bid_, cached_best_ask_,
                   statistics_, mpscvars, batchvars, mgrvars, w_op,
                   r_bid, r_ask,
                   fixvars, threadvars>>

\* update_quote and update_level2: bids_.clear(); asks_.clear().
WriterClear ==
    /\ w_pc = "clear"
    /\ bids_' = EmptyLevels
    /\ asks_' = EmptyLevels
    /\ w_pc' = "insert"
    /\ UNCHANGED <<qvars, aggvars, cached_best_bid_, cached_best_ask_,
                   statistics_, obsvars, mpscvars, batchvars, mgrvars, w_op,
                   r_bid, r_ask, r_at, valid_bids, valid_asks,
                   fixvars, threadvars>>

\* update_quote and update_level2: the levels written into the cleared maps.
WriterInsert ==
    /\ w_pc = "insert"
    /\ IF w_op.op = "update_quote"
       THEN LET quote == w_op.quote
            IN  /\ bids_' = IF quote.bid_price > 0 /\ quote.bid_size > 0
                            THEN PutLevel(bids_, quote.bid_price,
                                          OrderBookLevel(quote.bid_price,
                                                         quote.bid_size, 1))
                            ELSE bids_
                /\ asks_' = IF quote.ask_price > 0 /\ quote.ask_size > 0
                            THEN PutLevel(asks_, quote.ask_price,
                                          OrderBookLevel(quote.ask_price,
                                                         quote.ask_size, 1))
                            ELSE asks_
       ELSE /\ bids_' = SnapshotLevels(bids_, w_op.bids)
            /\ asks_' = SnapshotLevels(asks_, w_op.asks)
    /\ MapsWritten
    /\ w_pc' = "store_bid"
    /\ UNCHANGED <<qvars, aggvars, cached_best_bid_, cached_best_ask_,
                   statistics_, obsvars, mpscvars, batchvars, mgrvars, w_op,
                   r_bid, r_ask, r_at,
                   fixvars, threadvars>>

\* update_best_prices: cached_best_bid_.store(best_bid, release).
WriterStoreBid ==
    /\ w_pc = "store_bid"
    /\ cached_best_bid_' = update_best_prices(bids_, asks_)[1]
    /\ w_pc' = "store_ask"
    /\ UNCHANGED <<qvars, aggvars, bids_, asks_, cached_best_ask_, statistics_,
                   obsvars, mpscvars, batchvars, mgrvars, w_op, r_bid, r_ask,
                   r_at, valid_bids, valid_asks,
                   fixvars, threadvars>>

\* update_best_prices: cached_best_ask_.store(best_ask, release).
WriterStoreAsk ==
    /\ w_pc = "store_ask"
    /\ cached_best_ask_' = update_best_prices(bids_, asks_)[2]
    /\ IF w_op.op = "update_quote"
       THEN /\ w_pc' = "stats"
            /\ UNCHANGED <<obsvars, r_at>>
       ELSE /\ WriterReturns
            /\ UNCHANGED trade_log
    /\ UNCHANGED <<qvars, aggvars, bids_, asks_, cached_best_bid_, statistics_,
                   mpscvars, batchvars, mgrvars, w_op, r_bid, r_ask,
                   valid_bids, valid_asks,
                   fixvars, threadvars>>

\* update_quote: statistics_.update_quote under stats_mutex_.
WriterStats ==
    /\ w_pc = "stats"
    /\ statistics_' = StatsUpdateQuote(statistics_, w_op.quote.bid_price,
                                       w_op.quote.ask_price)
    /\ WriterReturns
    /\ UNCHANGED <<qvars, aggvars, bids_, asks_, cached_best_bid_,
                   cached_best_ask_, trade_log, mpscvars, batchvars, mgrvars,
                   w_op, r_bid, r_ask, valid_bids, valid_asks,
                   fixvars, threadvars>>

\* The reader thread: get_best_bid().
ReadBid ==
    /\ r_bid' = get_best_bid
    /\ r_at' = IF w_pc = "idle" THEN NoRead ELSE [pc |-> w_pc, side |-> "BUY"]
    /\ UNCHANGED <<qvars, aggvars, bookvars, obsvars, mpscvars, batchvars,
                   mgrvars, w_pc, w_op, r_ask, valid_bids, valid_asks,
                   fixvars, threadvars>>

\* The reader thread: get_best_ask().
ReadAsk ==
    /\ r_ask' = get_best_ask
    /\ r_at' = IF w_pc = "idle" THEN NoRead ELSE [pc |-> w_pc, side |-> "SELL"]
    /\ UNCHANGED <<qvars, aggvars, bookvars, obsvars, mpscvars, batchvars,
                   mgrvars, w_pc, w_op, r_bid, valid_bids, valid_asks,
                   fixvars, threadvars>>

Writer ==
    \/ WriterBegin
    \/ WriterRemove
    \/ WriterAdd
    \/ WriterDelete
    \/ WriterClear
    \/ WriterInsert
    \/ WriterStoreBid
    \/ WriterStoreAsk
    \/ WriterStats

Reader == ReadBid \/ ReadAsk

\* ---- the statistics driven by trades over the whole range of a word
\* The largest Price (int64_t max) and the trades update_trade is given.
BigPrice == Word \div 2 - 1
StatTrades == [price : {1, 2, 3, BigPrice}, quantity : {1, MaxStatQty}]
StatQuotes == {quote \in Quotes : quote.bid_size = MaxQty /\ quote.ask_price = MaxPrice}

ApplyTrade ==
    \E trade \in StatTrades :
        /\ Len(trade_log) < MaxTrades
        /\ BookUpdateTrade(trade)
        /\ ops' = ops + 1
        /\ last_op' = [op |-> "update_trade", trade |-> trade]
        /\ trade_log' = Append(trade_log, trade)
        /\ UNCHANGED <<qvars, aggvars, mpscvars, batchvars, mgrvars, rdvars, fixvars, threadvars>>

ApplyQuote ==
    \E quote \in StatQuotes :
        /\ ops - Len(trade_log) < MaxStatQuotes
        /\ BookUpdateQuote(quote)
        /\ ops' = ops + 1
        /\ last_op' = [op |-> "update_quote", quote |-> quote]
        /\ UNCHANGED <<qvars, aggvars, trade_log, mpscvars, batchvars, mgrvars, rdvars, fixvars, threadvars>>

(***************************************************************************)
(* OrderBookManager called from several threads.  The sections guarded by  *)
(* books_mutex_ (shared or unique) only exclude each other, so each is one *)
(* step of the thread that runs it; what a thread does between two         *)
(* sections is interleaved with the other threads.                         *)
(***************************************************************************)
\* std::unordered_map<std::string, std::unique_ptr<OrderBook>> with no
\* entries; an OrderBook is denoted by the number of its construction.
EmptyBooks == [symbol \in {} |-> 0]

\* books_.emplace(symbol, book): inserts only when the key is absent.
emplace_mutant(books, symbol, book) ==
    [x \in (DOMAIN books) \cup {symbol} |-> IF x = symbol THEN book ELSE books[x]]
emplace(books, symbol, book) ==
    IF symbol \in DOMAIN books
    THEN books
    ELSE [x \in (DOMAIN books) \cup {symbol} |->
             IF x = symbol THEN book ELSE books[x]]

\* The OrderBook a single-threaded manager that never erases constructs next.
NewBook(books) == Cardinality(DOMAIN books) + 1

TheSymbol == "AAPL"
MgrThreads == 1..NumMgrThreads
MgrSymbols == {"AAPL", "MSFT"}
NoBook == 0

\* The variables of the aggregator the manager's calls leave alone.
loopvars == <<running_, apc, mpc, applied, enq_at_stop, messages_processed,
              avg_latency_ns, max_latency_ns>>

\* A thread begins one of the manager's operations.
MgrCall(t) ==
    \E symbol \in MgrSymbols,
       op \in {"get_or_create_book", "get_book", "remove_book",
                "clear_stale_books"} :
        /\ t_pc[t] = "idle"
        /\ mgr_calls < MaxMgrCalls
        /\ mgr_calls' = mgr_calls + 1
        /\ t_pc' = [t_pc EXCEPT ![t] = op]
        /\ t_symbol' = [t_symbol EXCEPT ![t] = symbol]
        /\ t_book' = [t_book EXCEPT ![t] = NoBook]
        /\ t_inserted' = [t_inserted EXCEPT ![t] = "unset"]
        /\ UNCHANGED <<active_symbols_, last_update, destroyed, books_created,
                       clock, t_stale, t_cutoff, use_after_erase>>
        /\ UNCHANGED <<books_, total_updates_>>

\* get_or_create_book: the lookup under the shared lock.
GetOrCreateFind(t) ==
    /\ t_pc[t] = "get_or_create_book"
    /\ IF t_symbol[t] \in DOMAIN books_
       THEN /\ t_book' = [t_book EXCEPT ![t] = books_[t_symbol[t]]]
            /\ t_pc' = [t_pc EXCEPT ![t] = "has_book"]
       ELSE /\ t_pc' = [t_pc EXCEPT ![t] = "emplace"]
            /\ UNCHANGED t_book
    /\ UNCHANGED <<active_symbols_, last_update, destroyed, books_created,
                   clock, t_symbol, t_inserted, t_stale, t_cutoff, mgr_calls,
                   use_after_erase>>
    /\ UNCHANGED <<books_, total_updates_>>

\* get_or_create_book: the emplace under the unique lock.  The OrderBook
\* constructor stamps statistics_.last_update with now().
GetOrCreateEmplace(t) ==
    LET symbol == t_symbol[t]
        book == books_created + 1
        inserted == symbol \notin DOMAIN books_
        books == emplace(books_, symbol, book)
    IN  /\ t_pc[t] = "emplace"
        /\ books_' = books
        /\ t_inserted' = [t_inserted EXCEPT ![t] =
                              IF inserted THEN "true" ELSE "false"]
        /\ active_symbols_' = IF inserted THEN Uint(active_symbols_ + 1)
                              ELSE active_symbols_
        /\ books_created' = IF books = books_ THEN books_created ELSE book
        /\ last_update' = IF books = books_ THEN last_update
                          ELSE [b \in (DOMAIN last_update) \cup {book} |->
                                   IF b = book THEN clock ELSE last_update[b]]
        /\ t_book' = [t_book EXCEPT ![t] = books[symbol]]
        /\ t_pc' = [t_pc EXCEPT ![t] = "has_book"]
        /\ UNCHANGED <<destroyed, clock, t_symbol, t_stale, t_cutoff,
                       mgr_calls, use_after_erase>>
        /\ UNCHANGED total_updates_

\* get_book: the lookup under the shared lock.
GetBook(t) ==
    /\ t_pc[t] = "get_book"
    /\ IF t_symbol[t] \in DOMAIN books_
       THEN /\ t_book' = [t_book EXCEPT ![t] = books_[t_symbol[t]]]
            /\ t_pc' = [t_pc EXCEPT ![t] = "has_book"]
       ELSE /\ t_pc' = [t_pc EXCEPT ![t] = "idle"]
            /\ UNCHANGED t_book
    /\ UNCHANGED <<active_symbols_, last_update, destroyed, books_created,
                   clock, t_symbol, t_inserted, t_stale, t_cutoff, mgr_calls,
                   use_after_erase>>
    /\ UNCHANGED <<books_, total_updates_>>

\* OrderBookManager::update_trade / update_quote after get_or_create_book:
\* book->update_trade(trade) stamps last_update; total_updates_.fetch_add(1).
\* Using a destroyed OrderBook is undefined behaviour; it is noted.
UseBook(t) ==
    /\ t_pc[t] = "has_book"
    /\ IF t_book[t] \in destroyed
       THEN /\ use_after_erase' = TRUE
            /\ UNCHANGED last_update
       ELSE /\ last_update' = [last_update EXCEPT ![t_book[t]] = clock]
            /\ UNCHANGED use_after_erase
    /\ total_updates_' = total_updates_ + 1
    /\ t_pc' = [t_pc EXCEPT ![t] = "idle"]
    /\ UNCHANGED <<active_symbols_, destroyed, books_created, clock,
                   t_symbol, t_book, t_inserted, t_stale, t_cutoff, mgr_calls>>
    /\ UNCHANGED books_

\* The caller of get_or_create_book / get_book lets go of the pointer.
DropBook(t) ==
    /\ t_pc[t] = "has_book"
    /\ t_pc' = [t_pc EXCEPT ![t] = "idle"]
    /\ UNCHANGED <<active_symbols_, last_update, destroyed, books_created,
                   clock, t_symbol, t_book, t_inserted, t_stale, t_cutoff,
                   mgr_calls, use_after_erase>>
    /\ UNCHANGED <<books_, total_updates_>>

\* remove_book: find and erase under the unique lock.
RemoveBook(t) ==
    LET symbol == t_symbol[t]
    IN  /\ t_pc[t] = "remove_book"
        /\ IF symbol \in DOMAIN books_
           THEN /\ books_' = [x \in (DOMAIN books_) \ {symbol} |-> books_[x]]
                /\ destroyed' = destroyed \cup {books_[symbol]}
                /\ active_symbols_' = Uint(active_symbols_ - 1)
           ELSE UNCHANGED <<books_, destroyed, active_symbols_>>
        /\ t_pc' = [t_pc EXCEPT ![t] = "idle"]
        /\ UNCHANGED <<last_update, books_created, clock, t_symbol, t_book,
                       t_inserted, t_stale, t_cutoff, mgr_calls,
                       use_after_erase>>
        /\ UNCHANGED total_updates_

\* clear_stale_books: cutoff_time = now() - max_age and the scan under the
\* shared lock.
StaleScan(t) ==
    LET cutoff_time == clock - MaxAge
        stale_symbols == {symbol \in DOMAIN books_ :
                             last_update[books_[symbol]] < cutoff_time}
    IN  /\ t_pc[t] = "clear_stale_books"
        /\ t_cutoff' = [t_cutoff EXCEPT ![t] = cutoff_time]
        /\ t_stale' = [t_stale EXCEPT ![t] = stale_symbols]
        /\ t_pc' = [t_pc EXCEPT ![t] =
                        IF stale_symbols = {} THEN "idle" ELSE "erase"]
        /\ UNCHANGED <<active_symbols_, last_update, destroyed, books_created,
                       clock, t_symbol, t_book, t_inserted, mgr_calls,
                       use_after_erase>>
        /\ UNCHANGED <<books_, total_updates_>>

\* clear_stale_books: under the unique lock, for every collected symbol
\* books_.erase(symbol); active_symbols_.fetch_sub(1).
StaleErase(t) ==
    LET erased == t_stale[t] \cap DOMAIN books_
    IN  /\ t_pc[t] = "erase"
        /\ books_' = [x \in (DOMAIN books_) \ erased |-> books_[x]]
        /\ destroyed' = destroyed \cup {books_[x] : x \in erased}
        /\ active_symbols_' = Uint(active_symbols_ - Cardinality(t_stale[t]))
        /\ t_pc' = [t_pc EXCEPT ![t] = "idle"]
        /\ UNCHANGED <<last_update, books_created, clock, t_symbol, t_book,
                       t_inserted, t_stale, t_cutoff, mgr_calls,
                       use_after_erase>>
        /\ UNCHANGED total_updates_

\* Time passes.
Tick ==
    /\ clock < MaxClock
    /\ clock' = clock + 1
    /\ UNCHANGED <<active_symbols_, last_update, destroyed, books_created,
                   t_pc, t_symbol, t_book, t_inserted, t_stale, t_cutoff,
                   mgr_calls, use_after_erase>>
    /\ UNCHANGED <<books_, total_updates_>>

Manager ==
    /\ \/ \E t \in MgrThreads :
              \/ MgrCall(t)
              \/ GetOrCreateFind(t)
              \/ GetOrCreateEmplace(t)
              \/ GetBook(t)
              \/ UseBook(t)
              \/ DropBook(t)
              \/ RemoveBook(t)
              \/ StaleScan(t)
              \/ StaleErase(t)
       \/ Tick
    /\ UNCHANGED <<qvars, loopvars, bookvars, obsvars, mpscvars, batchvars, rdvars,
                   fixvars, threadvars>>

(***************************************************************************)
(* MPSCQueue<T, Size>.  The items are pointers: 0 is nullptr, the items    *)
(* offered are 1, 2, 3, ...  Each atomic operation is one step of the      *)
(* thread that performs it.  A spurious failure of compare_exchange_weak   *)
(* leaves expected == nullptr and repeats the loop: a stuttering step.     *)
(***************************************************************************)
MpscProducers == 1..NumProducers
nullptr == 0

\* const size_t pos = tail_.fetch_add(1, acq_rel) & mask_;
MpscTryPushFetchAdd(p) ==
    /\ mp_pc[p] = "idle"
    /\ mp_next_item <= MaxMpscPushes
    /\ mp_item' = [mp_item EXCEPT ![p] = mp_next_item]
    /\ mp_next_item' = mp_next_item + 1
    /\ mp_pos' = [mp_pos EXCEPT ![p] = Mask(mpsc_tail_)]
    /\ mpsc_tail_' = Uint(mpsc_tail_ + 1)
    /\ mp_pc' = [mp_pc EXCEPT ![p] = "cas"]
    /\ UNCHANGED <<mpsc_head_, mpsc_buffer_, mc_pc, mc_pos, mc_item,
                   mpsc_pushed, mpsc_popped, mpsc_push_false>>

\* What the compare-exchange finds in the slot decides the call's result:
\* the item is stored when the slot holds nullptr.
SlotAccepts(slot) == slot = nullptr

\* while (!buffer_[pos].compare_exchange_weak(expected, item, ...))
\*     if (expected != nullptr) return false;
\* return true;
MpscTryPushCas(p) ==
    /\ mp_pc[p] = "cas"
    /\ IF SlotAccepts(mpsc_buffer_[mp_pos[p]])
       THEN /\ mpsc_buffer_' = [mpsc_buffer_ EXCEPT ![mp_pos[p]] = mp_item[p]]
            /\ mpsc_pushed' = Append(mpsc_pushed, mp_item[p])
            /\ UNCHANGED mpsc_push_false
       ELSE /\ mpsc_push_false' = mpsc_push_false + 1
            /\ UNCHANGED <<mpsc_buffer_, mpsc_pushed>>
    /\ mp_pc' = [mp_pc EXCEPT ![p] = "idle"]
    /\ UNCHANGED <<mpsc_head_, mpsc_tail_, mp_pos, mp_item, mp_next_item,
                   mc_pc, mc_pos, mc_item, mpsc_popped>>

\* const size_t pos = head_.load(relaxed);
MpscTryPopLoad ==
    /\ mc_pc = "idle"
    /\ mc_pos' = mpsc_head_
    /\ mc_pc' = "exchange"
    /\ UNCHANGED <<mpsc_head_, mpsc_tail_, mpsc_buffer_, mp_pc, mp_pos,
                   mp_item, mp_next_item, mc_item, mpsc_pushed, mpsc_popped,
                   mpsc_push_false>>

\* item = buffer_[pos].exchange(nullptr, acquire);
\* if (item == nullptr) return false;
MpscTryPopExchange ==
    /\ mc_pc = "exchange"
    /\ mc_item' = mpsc_buffer_[mc_pos]
    /\ mpsc_buffer_' = [mpsc_buffer_ EXCEPT ![mc_pos] = nullptr]
    /\ mc_pc' = IF mpsc_buffer_[mc_pos] = nullptr THEN "idle" ELSE "store"
    /\ UNCHANGED <<mpsc_head_, mpsc_tail_, mp_pc, mp_pos, mp_item,
                   mp_next_item, mc_pos, mpsc_pushed, mpsc_popped,
                   mpsc_push_false>>

\* head_.store((pos + 1) & mask_, release); return true;
MpscTryPopStore ==
    /\ mc_pc = "store"
    /\ mpsc_head_' = Mask(mc_pos + 1)
    /\ mpsc_popped' = Append(mpsc_popped, mc_item)
    /\ mc_pc' = "idle"
    /\ UNCHANGED <<mpsc_tail_, mpsc_buffer_, mp_pc, mp_pos, mp_item,
                   mp_next_item, mc_pos, mc_item, mpsc_pushed,
                   mpsc_push_false>>

MpscProducer ==
    /\ \E p \in MpscProducers : MpscTryPushFetchAdd(p) \/ MpscTryPushCas(p)
    /\ UNCHANGED <<qvars, aggvars, bookvars, obsvars, batchvars, mgrvars, rdvars, fixvars, threadvars>>

MpscConsumer ==
    /\ (MpscTryPopLoad \/ MpscTryPopExchange \/ MpscTryPopStore)
    /\ UNCHANGED <<qvars, aggvars, bookvars, obsvars, batchvars, mgrvars, rdvars, fixvars, threadvars>>

(***************************************************************************)
(* Initial states.                                                         *)
(***************************************************************************)
(***************************************************************************)
(* FixParser and FixMessageBuilder.  A frame is a sequence of bytes        *)
(* (0..255); a std::string_view is modelled by the bytes it views.         *)
(* Positions are counted from 1, and npos is 0.                            *)
(***************************************************************************)
TagCacheSize == 512
MinFrameLength == 20
EQ == 61
SOH == 1
BeginStringPrefix == <<56, EQ, 70, 73, 88>>
npos == 0

\* std::to_string of a non-negative integer (FixMessageBuilder::add_field).
RECURSIVE to_string(_)
to_string(n) ==
    IF n < 10 THEN <<48 + n>> ELSE to_string(n \div 10) \o <<48 + (n % 10)>>

\* FixMessageBuilder::add_field appends tag '=' value SOH.
add_field(buffer, tag, value) == buffer \o to_string(tag) \o <<EQ>> \o value \o <<SOH>>

\* std::string_view::find(c, pos).
RECURSIVE find(_, _, _)
find(message, c, pos) ==
    IF pos > Len(message) THEN npos
    ELSE IF message[pos] = c THEN pos
    ELSE find(message, c, pos + 1)

\* std::string_view::starts_with.
starts_with(message, prefix) ==
    /\ Len(message) >= Len(prefix)
    /\ SubSeq(message, 1, Len(prefix)) = prefix

\* std::from_chars into an int64_t: an optional '-', then the longest run
\* of decimal digits; no digit is an error, what follows the run is
\* ignored.  (The frames checked have runs short enough to fit.)
IsDigit(b) == b \in 48..57
RECURSIVE DigitRun(_, _, _)
DigitRun(str, i, acc) ==
    IF i <= Len(str) /\ IsDigit(str[i])
    THEN DigitRun(str, i + 1, acc * 10 + (str[i] - 48))
    ELSE acc
nullopt == [has_value |-> FALSE, value |-> 0]
fast_parse_int(str) ==
    IF str = << >> THEN nullopt
    ELSE LET neg == str[1] = 45
             first == IF neg THEN 2 ELSE 1
         IN  IF first <= Len(str) /\ IsDigit(str[first])
             THEN [has_value |-> TRUE,
                   value |-> IF neg THEN 0 - DigitRun(str, first, 0)
                             ELSE DigitRun(str, first, 0)]
             ELSE nullopt

\* FixField(): tag BEGIN_STRING, empty value.
DefaultField == [tag |-> 8, value |-> << >>]
NoFields == [i \in 0..(MAX_FIELDS - 1) |-> DefaultField]
EmptyCache == [t \in 0..(TagCacheSize - 1) |-> << >>]

\* FixParser::reset: field_count_ = 0 and the tag cache cleared; fields_
\* is left as it is.
reset_mutant(parser) == [parser EXCEPT !.field_count_ = 0]
reset(parser) == [parser EXCEPT !.field_count_ = 0, !.tag_cache_ = EmptyCache]

\* The loop of FixParser::parse_fields from position pos on.
RECURSIVE ParseFieldsLoop(_, _, _, _)
ParseFieldsLoop(message, pos, fields, field_count) ==
    IF ~(pos <= Len(message) /\ field_count < MAX_FIELDS)
    THEN [fields_ |-> fields, field_count_ |-> field_count]
    ELSE LET eq_pos == find(message, EQ, pos)
             tag_opt == fast_parse_int(SubSeq(message, pos, eq_pos - 1))
             soh_pos == find(message, SOH, eq_pos + 1)
             done == [fields_ |-> fields, field_count_ |-> field_count]
         IN  IF eq_pos = npos THEN done
             ELSE IF ~tag_opt.has_value THEN done
             ELSE IF soh_pos = npos THEN done
             ELSE ParseFieldsLoop(
                      message, soh_pos + 1,
                      [fields EXCEPT ![field_count] =
                           [tag |-> tag_opt.value,
                            value |-> SubSeq(message, eq_pos + 1, soh_pos - 1)]],
                      field_count + 1)

\* FixParser::parse_fields: field_count_ = 0, the loop, field_count_ > 0.
parse_fields(parser, message) ==
    LET r == ParseFieldsLoop(message, 1, parser.fields_, 0)
    IN  [ret |-> r.field_count_ > 0,
         parser |-> [parser EXCEPT !.fields_ = r.fields_,
                                   !.field_count_ = r.field_count_]]

\* The loop of FixParser::build_tag_cache.  A tag is a uint32_t; a negative
\* parse result casts to a tag number beyond the cache.
RECURSIVE BuildTagCacheLoop(_, _, _, _)
BuildTagCacheLoop(cache, fields, i, field_count) ==
    IF ~(i < field_count) THEN cache
    ELSE LET tag_num == fields[i].tag
         IN  BuildTagCacheLoop(
                 IF tag_num >= 0 /\ tag_num < TagCacheSize
                 THEN [cache EXCEPT ![tag_num] = fields[i].value]
                 ELSE cache,
                 fields, i + 1, field_count)

\* FixParser::build_tag_cache
build_tag_cache(parser) ==
    [parser EXCEPT !.tag_cache_ =
         BuildTagCacheLoop(EmptyCache, parser.fields_, 0, parser.field_count_)]

\* FixParser::get_field: absent for a tag outside the cache or an empty view.
get_field(cache, tag) ==
    IF tag >= 0 /\ tag < TagCacheSize /\ cache[tag] /= << >>
    THEN [has_value |-> TRUE, value |-> cache[tag]]
    ELSE [has_value |-> FALSE, value |-> << >>]

\* FixParser::parse_message: the value returned and the parser it leaves.
parse_message(parser, message) ==
    LET cleared == reset(parser)
        parsed == parse_fields(cleared, message)
    IN  IF Len(message) < MinFrameLength \/ ~starts_with(message, BeginStringPrefix)
        THEN [ret |-> FALSE, parser |-> cleared]
        ELSE IF ~parsed.ret
        THEN [ret |-> FALSE, parser |-> parsed.parser]
        ELSE [ret |-> TRUE, parser |-> build_tag_cache(parsed.parser)]

\* parse_errors_.fetch_add(1) and messages_parsed_.fetch_add(1).
ParseErrorIncrementMutant(n) == n
ParseErrorIncrement(n) == n + 1
MessagesParsedIncrement(n) == n + 1

\* FixParser::calculate_checksum and FixMessageBuilder::calculate_checksum:
\* the sum of the bytes modulo 256.
RECURSIVE ByteSum(_, _)
ByteSum(message, i) ==
    IF i > Len(message) THEN 0 ELSE message[i] + ByteSum(message, i + 1)
calculate_checksum(message) == ByteSum(message, 1) % 256

\* FixMessageBuilder::finalize_message: "10=" and the checksum of the
\* buffer as three digits, zero-filled, then SOH.
finalize_message(buffer) ==
    LET checksum == calculate_checksum(buffer)
    IN  buffer \o to_string(10) \o <<EQ>>
               \o <<48 + (checksum \div 100), 48 + ((checksum \div 10) % 10),
                    48 + (checksum % 10)>>
               \o <<SOH>>

\* FixParser::validate_checksum
validate_checksum(message) == TRUE

\* ---- the frames the parser is given
FixVersion == <<70, 73, 88, 46, 52, 46, 52>>
Header == add_field(<< >>, 8, FixVersion)

\* n fields "1=0" SOH appended to a buffer.
RECURSIVE Padded(_, _)
Padded(buffer, n) ==
    IF n = 0 THEN buffer ELSE Padded(add_field(buffer, 1, <<48>>), n - 1)

\* Header, 35=W, 34=1: exactly MinFrameLength bytes.
GoodFrame == add_field(add_field(Header, 35, <<87>>), 34, <<49>>)
\* A second well-formed frame with other fields, a repeated tag, an empty
\* value and a tag beyond the cache.
OtherFrame ==
    add_field(add_field(add_field(add_field(
        Header, 35, <<88>>), 35, <<87>>), 56, << >>), 999, <<49>>)
\* Header, 35=W: shorter than MinFrameLength.
ShortFrame == add_field(Header, 35, <<87>>)
\* GoodFrame with "9" for "8" as its first byte.
BadHeaderFrame == <<57>> \o Tail(GoodFrame)
\* "8=FIX.4.4.4.4.4...": long enough, and no SOH anywhere.
NoSohFrame == BeginStringPrefix \o <<46, 52, 46, 52, 46, 52, 46, 52, 46, 52, 46,
                                    52, 46, 52, 46, 52>>
\* Header, 35=W, then "AB=1" SOH (a tag that is no number), then 34=1.
BadTagFrame ==
    add_field(add_field(Header, 35, <<87>>) \o <<65, 66, EQ, 49, SOH>>, 34, <<49>>)
\* Header, 35=W, then "3412" SOH (no '=' after the tag).
NoEqFrame == add_field(Header, 35, <<87>>) \o <<51, 52, 49, 50, SOH>>
\* Header, 35=W, then "34=12" with no SOH after the value.
UnterminatedFrame == add_field(Header, 35, <<87>>) \o <<51, 52, EQ, 49, 50>>
\* Header and MAX_FIELDS - 1 more fields, and the same with 55=A after them.
FullFrame == Padded(Header, MAX_FIELDS - 1)
OverfullFrame == add_field(FullFrame, 55, <<65>>)

Frames == {GoodFrame, OtherFrame, ShortFrame, BadHeaderFrame, NoSohFrame,
           BadTagFrame, NoEqFrame, UnterminatedFrame, FullFrame, OverfullFrame}

\* The parser as one record.
Parser == [field_count_ |-> field_count_, fields_ |-> fields_,
           tag_cache_ |-> tag_cache_]

\* A call of parse_message with one of the frames.
FixParseMessage ==
    \E message \in Frames :
        /\ fix_calls < MaxParses
        /\ LET r == parse_message(Parser, message)
           IN  /\ field_count_' = r.parser.field_count_
               /\ fields_' = r.parser.fields_
               /\ tag_cache_' = r.parser.tag_cache_
               /\ IF r.ret
                  THEN /\ messages_parsed_' = MessagesParsedIncrement(messages_parsed_)
                       /\ UNCHANGED parse_errors_
                  ELSE /\ parse_errors_' = ParseErrorIncrement(parse_errors_)
                       /\ UNCHANGED messages_parsed_
               /\ fix_last' = [op |-> "parse_message", frame |-> message,
                               ret |-> r.ret]
        /\ fix_calls' = fix_calls + 1
        /\ UNCHANGED <<qvars, aggvars, bookvars, obsvars, mpscvars, batchvars,
                       mgrvars, rdvars, threadvars>>

\* A call of reset().
FixReset ==
    /\ LET r == reset(Parser)
       IN  /\ field_count_' = r.field_count_
           /\ fields_' = r.fields_
           /\ tag_cache_' = r.tag_cache_
    /\ fix_last' = [op |-> "reset", frame |-> << >>, ret |-> TRUE]
    /\ UNCHANGED <<qvars, aggvars, bookvars, obsvars, mpscvars, batchvars,
                   mgrvars, rdvars, messages_parsed_, parse_errors_, fix_calls,
                   threadvars>>

\* A byte with bit k inverted.
FlipBit(byte, k) ==
    IF (byte \div 2^k) % 2 = 1 THEN byte - 2^k ELSE byte + 2^k

\* The buffers FixMessageBuilder finalizes, and the bytes of the payload
\* a bit is flipped in.
Buffers == {GoodFrame, add_field(GoodFrame, 55, <<65, 66>>)}
FlipPositions == {1, MinFrameLength}

\* A call of validate_checksum with a finalized frame, as built or with
\* one bit of its payload flipped.
FixValidateChecksum ==
    \E buffer \in Buffers, flipped \in BOOLEAN, i \in FlipPositions, k \in 0..7 :
        /\ LET built == finalize_message(buffer)
               message == IF flipped
                          THEN [built EXCEPT ![i] = FlipBit(built[i], k)]
                          ELSE built
           IN  fix_last' = [op |-> "validate_checksum", frame |-> message,
                            ret |-> validate_checksum(message), built |-> built]
        /\ UNCHANGED <<qvars, aggvars, bookvars, obsvars, mpscvars, batchvars,
                       mgrvars, rdvars, field_count_, fields_, tag_cache_,
                       messages_parsed_, parse_errors_, fix_calls, threadvars>>

Fix == FixParseMessage \/ FixReset \/ FixValidateChecksum

InitFix ==
    /\ field_count_ = 0
    /\ fields_ = NoFields
    /\ tag_cache_ = EmptyCache
    /\ messages_parsed_ = 0
    /\ parse_errors_ = 0
    /\ fix_calls = 0
    /\ fix_last = [op |-> "none", frame |-> << >>, ret |-> TRUE]

MetricThreads == 1..NumMetricThreads

InitMetrics ==
    /\ ul_pc = [t \in MetricThreads |-> "idle"]
    /\ ul_sample = [t \in MetricThreads |-> 0]
    /\ ul_current_avg = [t \in MetricThreads |-> 0]
    /\ ul_current_max = [t \in MetricThreads |-> 0]
    /\ ul_entry = [t \in MetricThreads |->
                     [messages_processed |-> 0, avg_latency_ns |-> 0,
                      max_latency_ns |-> 0]]
    /\ ul_alone = [t \in MetricThreads |-> TRUE]
    /\ ul_recorded = {}
    /\ ul_calls = 0

InitSize ==
    /\ s_pc = "idle"
    /\ s_first = 0
    /\ s_result = [call |-> "none", value |-> 0]
    /\ s_counts = {}

InitStats ==
    /\ stats_mutex_ = "free"
    /\ sw_pc = "idle"
    /\ sw_trade = [price |-> 0, quantity |-> 0]
    /\ sw_value = [old_total_value |-> 0, new_trade_value |-> 0]
    /\ sr_pc = "idle"
    /\ sr_volume = 0
    /\ sr_count = 0
    /\ sr_in_update = FALSE

InitDepth == d_at = [pc |-> "idle", op |-> "none", bids |-> {}, asks |-> {}]

InitThreads == InitMetrics /\ InitSize /\ InitStats /\ InitDepth

InitReader ==
    /\ w_pc = "idle"
    /\ w_op = NoOp
    /\ r_bid = 0
    /\ r_ask = 0
    /\ r_at = NoRead
    /\ valid_bids = {0}
    /\ valid_asks = {0}

InitMgr ==
    /\ active_symbols_ = 0
    /\ last_update = [b \in {} |-> 0]
    /\ destroyed = {}
    /\ books_created = 0
    /\ clock = 0
    /\ t_pc = [t \in MgrThreads |-> "idle"]
    /\ t_symbol = [t \in MgrThreads |-> TheSymbol]
    /\ t_book = [t \in MgrThreads |-> NoBook]
    /\ t_inserted = [t \in MgrThreads |-> "unset"]
    /\ t_stale = [t \in MgrThreads |-> {}]
    /\ t_cutoff = [t \in MgrThreads |-> 0]
    /\ mgr_calls = 0
    /\ use_after_erase = FALSE

InitBatch ==
    /\ b_max_count = 0
    /\ b_count = 0
    /\ b_msgs = << >>
    /\ b_start = [n |-> 0, popped |-> 0, next_seq |-> 1, idle |-> TRUE]

InitMpsc ==
    /\ mpsc_head_ = 0
    /\ mpsc_tail_ = 0
    /\ mpsc_buffer_ = [i \in 0..(Size - 1) |-> nullptr]
    /\ mp_pc = [p \in MpscProducers |-> "idle"]
    /\ mp_pos = [p \in MpscProducers |-> 0]
    /\ mp_item = [p \in MpscProducers |-> nullptr]
    /\ mp_next_item = 1
    /\ mc_pc = "idle"
    /\ mc_pos = 0
    /\ mc_item = nullptr
    /\ mpsc_pushed = << >>
    /\ mpsc_popped = << >>
    /\ mpsc_push_false = 0

InitQueue ==
    /\ head_ = 0
    /\ tail_ = 0
    /\ buffer_ = [i \in 0..(Size - 1) |-> DefaultMessage]
    /\ dropped_messages_ = 0
    /\ ppc = "idle"
    /\ p_current_tail = 0
    /\ p_item = DefaultMessage
    /\ p_next_seq = 1
    /\ cpc = "idle"
    /\ c_current_head = 0
    /\ c_item = DefaultMessage
    /\ pushed = << >>
    /\ popped = << >>
    /\ push_false = 0

InitBook ==
    /\ bids_ = EmptyLevels
    /\ asks_ = EmptyLevels
    /\ cached_best_bid_ = 0
    /\ cached_best_ask_ = 0
    /\ statistics_ = DefaultStatistics
    /\ ops = 0
    /\ last_op = NoOp
    /\ trade_log = << >>

InitManager ==
    /\ running_ = FALSE
    /\ applied = << >>
    /\ enq_at_stop = 0
    /\ total_updates_ = 0
    /\ books_ = EmptyBooks
    /\ messages_processed = 0
    /\ avg_latency_ns = 0
    /\ max_latency_ns = 0

\* The order book on its own.
BookInit ==
    /\ InitQueue /\ InitBook /\ InitManager /\ InitMpsc /\ InitBatch
    /\ InitMgr /\ InitReader /\ InitFix /\ InitThreads
    /\ apc = "none"
    /\ mpc = "none"

BookNext ==
    \/ add_order
    \/ modify_order
    \/ delete_order
    \/ update_trade
    \/ update_quote
    \/ update_level2

SpecBook == BookInit /\ [][BookNext]_vars

\* The order book written by the aggregator and read by another thread.
ReaderInit == BookInit

ReaderNext == Writer \/ Reader

SpecReader == ReaderInit /\ [][ReaderNext]_vars

\* The FIX parser on its own.
FixInit == BookInit

FixNext == Fix

SpecFix == FixInit /\ [][FixNext]_vars

\* The statistics of one book under trades and quotes.
StatsInit == BookInit

StatsNext == ApplyTrade \/ ApplyQuote

SpecStats == StatsInit /\ [][StatsNext]_vars

\* The OrderBookManager under calls from several threads.
MgrInit ==
    /\ InitQueue /\ InitBook /\ InitManager /\ InitMpsc /\ InitBatch
    /\ InitMgr /\ InitReader /\ InitFix /\ InitThreads
    /\ apc = "none"
    /\ mpc = "none"

MgrNext == Manager

SpecMgr == MgrInit /\ [][MgrNext]_vars

\* The queue between one producer thread and a batching consumer thread.
BatchInit ==
    /\ InitQueue /\ InitBook /\ InitManager /\ InitMpsc /\ InitBatch
    /\ InitMgr /\ InitReader /\ InitFix /\ InitThreads
    /\ apc = "batch_idle"
    /\ mpc = "none"

BatchNext == Producer \/ BatchConsumer

SpecBatch == BatchInit /\ [][BatchNext]_vars

\* The MPSCQueue between its producer threads and its consumer thread.
MpscInit ==
    /\ InitQueue /\ InitBook /\ InitManager /\ InitMpsc /\ InitBatch
    /\ InitMgr /\ InitReader /\ InitFix /\ InitThreads
    /\ apc = "none"
    /\ mpc = "none"

MpscNext == MpscProducer \/ MpscConsumer

SpecMpsc == MpscInit /\ [][MpscNext]_vars

\* The queue between one producer thread and one consumer thread.
QueueInit ==
    /\ InitQueue /\ InitBook /\ InitManager /\ InitMpsc /\ InitBatch
    /\ InitMgr /\ InitReader /\ InitFix /\ InitThreads
    /\ apc = "consumer"
    /\ mpc = "none"

QueueNext == Producer \/ Consumer

SpecQueue == QueueInit /\ [][QueueNext]_vars

\* The producer, the consumer and a third thread that reads the status.
StatusInit == QueueInit
StatusNext == Producer \/ Consumer \/ StatusReader
SpecStatus == StatusInit /\ [][StatusNext]_vars

(***************************************************************************)
(* OrderBookManager and MarketDataAggregator.  Every message of the model  *)
(* carries the same symbol, so the manager holds at most one book.         *)
(***************************************************************************)

LatencySamples == {1, 40}

\* PerformanceMetrics::update_latency's new average: (avg * 15 + sample) / 16.
NewAverage(avg, sample) == Uint(avg * 15 + sample) \div 16

\* OrderBookManager::process_message: TRADE and QUOTE reach the symbol's
\* book (created on first use); every other type takes the default branch.
process_message(message) ==
    CASE message.type = "TRADE" ->
            /\ books_' = emplace(books_, TheSymbol, NewBook(books_))
            /\ BookUpdateTrade(message.trade_data)
            /\ total_updates_' = total_updates_ + 1
      [] message.type = "QUOTE" ->
            /\ books_' = emplace(books_, TheSymbol, NewBook(books_))
            /\ BookUpdateQuote(message.quote_data)
            /\ total_updates_' = total_updates_ + 1
      [] OTHER ->
            UNCHANGED <<books_, bookvars, total_updates_>>

\* MarketDataAggregator::start
Start ==
    /\ mpc = "init"
    /\ running_' = TRUE
    /\ apc' = "loop"
    /\ mpc' = "started"
    /\ UNCHANGED <<applied, enq_at_stop, total_updates_, books_,
                   messages_processed, avg_latency_ns, max_latency_ns>>
    /\ UNCHANGED <<qvars, bookvars, obsvars, mpscvars, batchvars, mgrvars, rdvars, fixvars, threadvars>>

\* MarketDataAggregator::stop: running_.store(false, release)
StopStore ==
    /\ mpc = "started"
    /\ running_' = FALSE
    /\ enq_at_stop' = Len(pushed)
    /\ mpc' = "joining"
    /\ UNCHANGED <<apc, applied, total_updates_, books_, messages_processed,
                   avg_latency_ns, max_latency_ns>>
    /\ UNCHANGED <<qvars, bookvars, obsvars, mpscvars, batchvars, mgrvars, rdvars, fixvars, threadvars>>

\* MarketDataAggregator::stop: processing_thread_.join() returns
StopJoin ==
    /\ mpc = "joining"
    /\ apc = "exited"
    /\ mpc' = "stopped"
    /\ UNCHANGED <<running_, apc, applied, enq_at_stop, total_updates_, books_,
                   messages_processed, avg_latency_ns, max_latency_ns>>
    /\ UNCHANGED <<qvars, bookvars, obsvars, mpscvars, batchvars, mgrvars, rdvars, fixvars, threadvars>>

\* Where the loop goes on reading running_: into the body, or out.
LoopTargetMutant(running) == "dequeue"
LoopTarget(running) == IF running THEN "dequeue" ELSE "exited"

\* processing_loop: while (running_.load(acquire))
LoopCheck ==
    /\ apc = "loop"
    /\ apc' = LoopTarget(running_)
    /\ UNCHANGED <<running_, mpc, applied, enq_at_stop, total_updates_, books_,
                   messages_processed, avg_latency_ns, max_latency_ns>>
    /\ UNCHANGED <<qvars, bookvars, obsvars, mpscvars, batchvars, mgrvars, rdvars, fixvars, threadvars>>

\* processing_loop: book_manager_.process_message(msg);
\*                  metrics_.update_latency(latency);
Process ==
    /\ apc = "process"
    /\ process_message(c_item)
    /\ applied' = Append(applied, c_item.sequence_number)
    /\ \E latency \in LatencySamples :
        /\ messages_processed' = messages_processed + 1
        /\ avg_latency_ns' = NewAverage(avg_latency_ns, latency)
        /\ max_latency_ns' = IF latency > max_latency_ns
                             THEN latency ELSE max_latency_ns
    /\ apc' = "loop"
    /\ UNCHANGED <<running_, mpc, enq_at_stop>>
    /\ UNCHANGED <<qvars, obsvars, mpscvars, batchvars, mgrvars, rdvars, fixvars, threadvars>>

\* processing_loop: std::this_thread::sleep_for(1us)
Sleep ==
    /\ apc = "sleep"
    /\ apc' = "loop"
    /\ UNCHANGED <<running_, mpc, applied, enq_at_stop, total_updates_, books_,
                   messages_processed, avg_latency_ns, max_latency_ns>>
    /\ UNCHANGED <<qvars, bookvars, obsvars, mpscvars, batchvars, mgrvars, rdvars, fixvars, threadvars>>

\* The processing thread: the loop with its call of dequeue.
ProcessingLoop ==
    \/ LoopCheck
    \/ TryPopBegin
    \/ TryPopCheck("sleep")
    \/ TryPopRead
    \/ TryPopStore("process")
    \/ Process
    \/ Sleep

AggInit ==
    /\ InitQueue /\ InitBook /\ InitManager /\ InitMpsc /\ InitBatch
    /\ InitMgr /\ InitReader /\ InitFix /\ InitThreads
    /\ apc = "notstarted"
    /\ mpc = "init"

AggNext == Producer \/ ProcessingLoop \/ Start \/ StopStore \/ StopJoin

SpecAgg == AggInit /\ [][AggNext]_vars

\* The same with the processing thread scheduled again and again and
\* join() returning once that thread has ended; the producer may stop or
\* go on at any time.
SpecAggFair == SpecAgg /\ WF_vars(ProcessingLoop) /\ WF_vars(StopJoin)

(***************************************************************************)
(* PerformanceMetrics::update_latency called by several threads, one       *)
(* atomic access at a time.                                                *)
(***************************************************************************)
\* The latencies passed: two small ones and the largest uint64_t.
MetricSamples == {1, 3, Word - 1}

\* What compare_exchange_weak(current_max, latency_ns) stores when the
\* value is the expected one.
CasMax(current, expected, desired) ==
    IF current = expected THEN desired ELSE current

\* A thread enters update_latency(sample).
UlCall(t) ==
    \E sample \in MetricSamples :
        /\ ul_pc[t] = "idle"
        /\ ul_calls + Cardinality({u \in MetricThreads : ul_pc[u] /= "idle"})
             < MaxLatencyCalls
        /\ ul_sample' = [ul_sample EXCEPT ![t] = sample]
        /\ ul_pc' = [ul_pc EXCEPT ![t] = "fetch_add"]
        /\ ul_entry' = [ul_entry EXCEPT ![t] =
                           [messages_processed |-> messages_processed,
                            avg_latency_ns |-> avg_latency_ns,
                            max_latency_ns |-> max_latency_ns]]
        /\ ul_alone' = [u \in MetricThreads |->
                           IF u = t
                           THEN \A v \in MetricThreads : ul_pc[v] = "idle"
                           ELSE IF ul_pc[u] /= "idle" THEN FALSE ELSE ul_alone[u]]
        /\ UNCHANGED <<qvars, aggvars, bookvars, obsvars, mpscvars, batchvars,
                       mgrvars, rdvars, fixvars, ul_current_avg, ul_current_max,
                       ul_recorded, ul_calls, sizevars, statvars, depthvars>>

\* messages_processed.fetch_add(1)
UlFetchAdd(t) ==
    /\ ul_pc[t] = "fetch_add"
    /\ messages_processed' = Uint(messages_processed + 1)
    /\ ul_pc' = [ul_pc EXCEPT ![t] = "load_avg"]
    /\ UNCHANGED <<qvars, running_, apc, mpc, applied, enq_at_stop,
                   total_updates_, books_, avg_latency_ns, max_latency_ns,
                   bookvars, obsvars, mpscvars, batchvars, mgrvars, rdvars,
                   fixvars, ul_sample, ul_current_avg, ul_current_max, ul_entry,
                   ul_alone, ul_recorded, ul_calls, sizevars, statvars,
                   depthvars>>

\* current_avg = avg_latency_ns.load()
UlLoadAvg(t) ==
    /\ ul_pc[t] = "load_avg"
    /\ ul_current_avg' = [ul_current_avg EXCEPT ![t] = avg_latency_ns]
    /\ ul_pc' = [ul_pc EXCEPT ![t] = "store_avg"]
    /\ UNCHANGED <<qvars, aggvars, bookvars, obsvars, mpscvars, batchvars,
                   mgrvars, rdvars, fixvars, ul_sample, ul_current_max, ul_entry,
                   ul_alone, ul_recorded, ul_calls, sizevars, statvars,
                   depthvars>>

\* avg_latency_ns.store((current_avg * 15 + latency_ns) / 16)
UlStoreAvg(t) ==
    /\ ul_pc[t] = "store_avg"
    /\ avg_latency_ns' = NewAverage(ul_current_avg[t], ul_sample[t])
    /\ ul_pc' = [ul_pc EXCEPT ![t] = "load_max"]
    /\ UNCHANGED <<qvars, running_, apc, mpc, applied, enq_at_stop,
                   total_updates_, books_, messages_processed, max_latency_ns,
                   bookvars, obsvars, mpscvars, batchvars, mgrvars, rdvars,
                   fixvars, ul_sample, ul_current_avg, ul_current_max, ul_entry,
                   ul_alone, ul_recorded, ul_calls, sizevars, statvars,
                   depthvars>>

\* current_max = max_latency_ns.load()
UlLoadMax(t) ==
    /\ ul_pc[t] = "load_max"
    /\ ul_current_max' = [ul_current_max EXCEPT ![t] = max_latency_ns]
    /\ ul_pc' = [ul_pc EXCEPT ![t] = "loop"]
    /\ UNCHANGED <<qvars, aggvars, bookvars, obsvars, mpscvars, batchvars,
                   mgrvars, rdvars, fixvars, ul_sample, ul_current_avg, ul_entry,
                   ul_alone, ul_recorded, ul_calls, sizevars, statvars,
                   depthvars>>

\* One turn of the loop: while (latency_ns > current_max) with its
\* compare_exchange_weak, which reloads current_max when it fails; the
\* call returns when the loop ends.
UlLoop(t) ==
    /\ ul_pc[t] = "loop"
    /\ IF ul_sample[t] > ul_current_max[t]
       THEN /\ max_latency_ns' = CasMax(max_latency_ns, ul_current_max[t],
                                        ul_sample[t])
            /\ IF max_latency_ns = ul_current_max[t]
               THEN /\ ul_pc' = [ul_pc EXCEPT ![t] = "idle"]
                    /\ ul_recorded' = ul_recorded \cup {ul_sample[t]}
                    /\ ul_calls' = ul_calls + 1
                    /\ UNCHANGED ul_current_max
               ELSE /\ ul_current_max' = [ul_current_max EXCEPT
                                              ![t] = max_latency_ns]
                    /\ UNCHANGED <<ul_pc, ul_recorded, ul_calls>>
       ELSE /\ ul_pc' = [ul_pc EXCEPT ![t] = "idle"]
            /\ ul_recorded' = ul_recorded \cup {ul_sample[t]}
            /\ ul_calls' = ul_calls + 1
            /\ UNCHANGED <<max_latency_ns, ul_current_max>>
    /\ UNCHANGED <<qvars, running_, apc, mpc, applied, enq_at_stop,
                   total_updates_, books_, messages_processed, avg_latency_ns,
                   bookvars, obsvars, mpscvars, batchvars, mgrvars, rdvars,
                   fixvars, ul_sample, ul_current_avg, ul_entry, ul_alone,
                   sizevars, statvars, depthvars>>

update_latency ==
    \E t \in MetricThreads :
        \/ UlCall(t)
        \/ UlFetchAdd(t)
        \/ UlLoadAvg(t)
        \/ UlStoreAvg(t)
        \/ UlLoadMax(t)
        \/ UlLoop(t)

\* The metrics on their own.
MetricsInit == BookInit

MetricsNext == update_latency

SpecMetrics == MetricsInit /\ [][MetricsNext]_vars

(***************************************************************************)
(* The statistics of one book: OrderBook::update_trade on the aggregator   *)
(* thread, statement by statement under stats_mutex_, and a thread that    *)
(* reads the summary as get_market_summary_json does.                      *)
(***************************************************************************)
\* update_trade: std::lock_guard lock(stats_mutex_).
SwLock ==
    \E trade \in Trades :
        /\ sw_pc = "idle"
        /\ Len(trade_log) < MaxTrades
        /\ stats_mutex_ = "free"
        /\ stats_mutex_' = "writer"
        /\ sw_trade' = trade
        /\ sw_pc' = "volume"
        /\ UNCHANGED <<qvars, aggvars, bookvars, obsvars, mpscvars, batchvars,
                       mgrvars, rdvars, fixvars, metricvars, sizevars, sw_value,
                       sr_pc, sr_volume, sr_count, sr_in_update, depthvars>>

\* MarketStatistics::update_trade down to total_volume += quantity.
SwVolume ==
    /\ sw_pc = "volume"
    /\ statistics_' =
         [statistics_ EXCEPT
            !.last_price = sw_trade.price,
            !.open_price = IF statistics_.trade_count = 0
                           THEN sw_trade.price ELSE @,
            !.high_price = IF statistics_.trade_count = 0
                           THEN sw_trade.price ELSE Max2(@, sw_trade.price),
            !.low_price = IF statistics_.trade_count = 0
                          THEN sw_trade.price ELSE Min2(@, sw_trade.price),
            !.total_volume = Uint(@ + sw_trade.quantity)]
    /\ sw_value' = [old_total_value |->
                        Uint(Uint(statistics_.vwap) * statistics_.total_volume),
                    new_trade_value |->
                        Uint(Uint(sw_trade.price) * sw_trade.quantity)]
    /\ sw_pc' = "count"
    /\ UNCHANGED <<qvars, aggvars, bids_, asks_, cached_best_bid_,
                   cached_best_ask_, obsvars, mpscvars, batchvars, mgrvars,
                   rdvars, fixvars, metricvars, sizevars, stats_mutex_, sw_trade,
                   sr_pc, sr_volume, sr_count, sr_in_update, depthvars>>

\* MarketStatistics::update_trade: ++trade_count and the new vwap.
SwCount ==
    /\ sw_pc = "count"
    /\ statistics_' =
         [statistics_ EXCEPT
            !.trade_count = @ + 1,
            !.vwap = IF statistics_.total_volume > 0
                     THEN ToPrice(Uint(sw_value.old_total_value
                                       + sw_value.new_trade_value)
                                  \div statistics_.total_volume)
                     ELSE @]
    /\ sw_pc' = "unlock"
    /\ UNCHANGED <<qvars, aggvars, bids_, asks_, cached_best_bid_,
                   cached_best_ask_, obsvars, mpscvars, batchvars, mgrvars,
                   rdvars, fixvars, metricvars, sizevars, stats_mutex_, sw_trade,
                   sw_value, sr_pc, sr_volume, sr_count, sr_in_update,
                   depthvars>>

\* update_trade returns: the lock_guard releases stats_mutex_.
SwUnlock ==
    /\ sw_pc = "unlock"
    /\ stats_mutex_' = "free"
    /\ sw_pc' = "idle"
    /\ ops' = ops + 1
    /\ last_op' = [op |-> "update_trade", trade |-> sw_trade]
    /\ trade_log' = Append(trade_log, sw_trade)
    /\ UNCHANGED <<qvars, aggvars, bookvars, mpscvars, batchvars, mgrvars,
                   rdvars, fixvars, metricvars, sizevars, sw_trade, sw_value,
                   sr_pc, sr_volume, sr_count, sr_in_update, depthvars>>

\* OrderBook::get_statistics: the lock_guard takes stats_mutex_ and
\* releases it as the reference to statistics_ is returned.
SrGetStatistics ==
    /\ sr_pc = "idle"
    /\ stats_mutex_ = "free"
    /\ sr_pc' = "volume"
    /\ UNCHANGED <<qvars, aggvars, bookvars, obsvars, mpscvars, batchvars,
                   mgrvars, rdvars, fixvars, metricvars, sizevars, stats_mutex_,
                   sw_pc, sw_trade, sw_value, sr_volume, sr_count, sr_in_update,
                   depthvars>>

\* get_market_summary_json: symbol_data["volume"] = stats.total_volume.
SrReadVolume ==
    /\ sr_pc = "volume"
    /\ sr_volume' = statistics_.total_volume
    /\ sr_in_update' = (sr_in_update \/ stats_mutex_ = "writer")
    /\ sr_pc' = "count"
    /\ UNCHANGED <<qvars, aggvars, bookvars, obsvars, mpscvars, batchvars,
                   mgrvars, rdvars, fixvars, metricvars, sizevars, stats_mutex_,
                   sw_pc, sw_trade, sw_value, sr_count, depthvars>>

\* get_market_summary_json: symbol_data["trade_count"] = stats.trade_count.
SrReadCount ==
    /\ sr_pc = "count"
    /\ sr_count' = statistics_.trade_count
    /\ sr_in_update' = (sr_in_update \/ stats_mutex_ = "writer")
    /\ sr_pc' = "idle"
    /\ UNCHANGED <<qvars, aggvars, bookvars, obsvars, mpscvars, batchvars,
                   mgrvars, rdvars, fixvars, metricvars, sizevars, stats_mutex_,
                   sw_pc, sw_trade, sw_value, sr_volume, depthvars>>

StatsWriter == SwLock \/ SwVolume \/ SwCount \/ SwUnlock

SummaryReader == SrGetStatistics \/ SrReadVolume \/ SrReadCount

\* The statistics with their writer and their reader.
SummaryInit == BookInit

SummaryNext == StatsWriter \/ SummaryReader

SpecSummary == SummaryInit /\ [][SummaryNext]_vars

(***************************************************************************)
(* The level maps of one book: the aggregator's mutations statement by     *)
(* statement (Writer) and a thread calling get_bids and get_asks.          *)
(***************************************************************************)
\* OrderBook::get_bids / get_asks: the maps are walked with no lock taken.
\* (get_imbalance calls them with depth 5.)
ReadDepth ==
    /\ d_at' = [pc |-> w_pc, op |-> w_op.op,
                bids |-> get_bids(ImbalanceDepth),
                asks |-> get_asks(ImbalanceDepth)]
    /\ UNCHANGED <<qvars, aggvars, bookvars, obsvars, mpscvars, batchvars,
                   mgrvars, rdvars, fixvars, metricvars, sizevars, statvars>>

\* The book with its writer and a depth reader.
DepthInit == BookInit

DepthNext == Writer \/ ReadDepth

SpecDepth == DepthInit /\ [][DepthNext]_vars

(***************************************************************************)
(* Properties of the queue (SpecQueue).                                    *)
(***************************************************************************)
IsPrefix(s, t) == /\ Len(s) <= Len(t)
                  /\ \A i \in 1..Len(s) : s[i] = t[i]

Quiescent == ppc = "idle" /\ cpc = "idle"

\* C1: with one producer and one consumer running concurrently, the items
\* returned by the successful try_pop calls are, in order and unaltered, a
\* prefix of the items accepted by the successful try_push calls.
C1_FifoPrefix == IsPrefix(popped, pushed)

\* A run in which a push was rejected, the ring wrapped around and every
\* accepted item was popped.
C1_Witness == /\ push_false > 0
              /\ Len(popped) > Size
              /\ popped = pushed

\* C2: whenever no try_push and no try_pop is in progress, the number of
\* accepted pushes equals the number of successful pops plus size(); with
\* the queue empty, everything accepted has been received.
C2_Conservation ==
    Quiescent =>
        /\ Len(pushed) = Len(popped) + QueueSize
        /\ (QueueSize = 0 => popped = pushed)

\* A quiescent state with a full queue after the ring wrapped.
C2_Witness == /\ Quiescent
              /\ QueueSize = Capacity
              /\ Len(popped) >= 2
              /\ Len(pushed) > Size

\* C3: try_push fails exactly when size() = Size - 1 at its full-test and
\* then changes neither head, tail nor the buffer; a pop from a full queue
\* leaves room for exactly one push, after which the queue is full again.
C3_FullExactly ==
    [][ /\ (ppc = "check" /\ ppc' /= "check") =>
               ((ppc' = "drop") <=> (QueueSize = Size - 1))
        /\ ((ppc = "check" /\ ppc' = "drop") \/ (ppc = "drop" /\ ppc' = "idle")) =>
               UNCHANGED <<head_, tail_, buffer_>>
        /\ (cpc = "store" /\ cpc' = "idle" /\ QueueSize = Size - 1) =>
               QueueSize' = Size - 2
        /\ (ppc = "store" /\ ppc' = "idle" /\ QueueSize = Size - 2) =>
               QueueSize' = Size - 1
      ]_vars

\* Size - 1 pushes, a rejected push, one pop, one more accepted push: full.
C3_Witness == /\ Quiescent
              /\ push_false = 1
              /\ Len(popped) = 1
              /\ Len(pushed) = Size
              /\ QueueSize = Size - 1

\* C4: outside the window between try_push's failure and the fetch_add,
\* dropped_count() equals the number of enqueue calls whose try_push
\* returned false; an accepted enqueue does not change it.
C4_DroppedCount ==
    /\ ppc /= "drop" => dropped_messages_ = push_false
    /\ ppc = "drop" => dropped_messages_ + 1 = push_false

\* A rejected enqueue followed, after a pop, by an accepted one.
C4_Witness == /\ ppc = "idle"
              /\ dropped_messages_ = 1
              /\ Len(pushed) = Size
              /\ pushed[Size].sequence_number = Size + 1

(***************************************************************************)
(* Properties of the aggregator (SpecAgg).                                 *)
(***************************************************************************)
\* C5: the messages handed to process_message are, in order, a prefix of
\* the accepted messages, one at a time, and the manager's update counter
\* counts exactly the TRADE and QUOTE messages among them.
C5_AppliedInOrder ==
    /\ Len(applied) <= Len(pushed)
    /\ \A i \in 1..Len(applied) : applied[i] = pushed[i].sequence_number
    /\ total_updates_ =
           Cardinality({i \in 1..Len(applied) :
                            pushed[i].type \in {"TRADE", "QUOTE"}})
    /\ messages_processed = Len(applied)

\* More messages than the ring has slots were applied, after a rejection.
C5_Witness == /\ Len(applied) > Size
              /\ push_false > 0

\* C6 (as claimed): when stop() has returned, every message accepted before
\* stop() was called has been applied.
C6_StopDrains == mpc = "stopped" => Len(applied) >= enq_at_stop

(***************************************************************************)
(* Properties of the order book (SpecBook).                                *)
(***************************************************************************)
\* C7: after every completed mutation the cached best bid is the highest
\* bid price and the cached best ask the lowest ask price, 0 for an empty
\* side.
C7_BestPrices ==
    /\ (DOMAIN bids_ = {} => cached_best_bid_ = 0)
    /\ (DOMAIN bids_ /= {} =>
            /\ cached_best_bid_ \in DOMAIN bids_
            /\ \A p \in DOMAIN bids_ : p <= cached_best_bid_)
    /\ (DOMAIN asks_ = {} => cached_best_ask_ = 0)
    /\ (DOMAIN asks_ /= {} =>
            /\ cached_best_ask_ \in DOMAIN asks_
            /\ \A p \in DOMAIN asks_ : cached_best_ask_ <= p)

\* A delete_order removed the best bid level and a lower level is now best.
C7_Witness == /\ last_op.op = "delete_order"
              /\ last_op.side = "BUY"
              /\ last_op.price = MaxPrice
              /\ DOMAIN bids_ = {1}
              /\ cached_best_bid_ = 1
              /\ ops = MaxOps

\* C8 (as claimed): every level of either side has quantity > 0 and
\* order_count >= 1.
C8_LevelsPositive ==
    /\ \A p \in DOMAIN bids_ : bids_[p].quantity > 0 /\ bids_[p].order_count >= 1
    /\ \A p \in DOMAIN asks_ : asks_[p].quantity > 0 /\ asks_[p].order_count >= 1

\* The quantities of a level map, price by price.
QuantityMap(levels) == [p \in DOMAIN levels |-> levels[p].quantity]

\* Subtracting quantity at price, saturating at 0, the level removed at 0.
SaturatingDelete(qmap, price, quantity) ==
    IF price \notin DOMAIN qmap
    THEN qmap
    ELSE IF qmap[price] <= quantity
         THEN [p \in (DOMAIN qmap) \ {price} |-> qmap[p]]
         ELSE [qmap EXCEPT ![price] = @ - quantity]

\* The side last_op' names, before and after the step.
SideBefore(op) == IF op.side = "BUY" THEN bids_ ELSE asks_
SideAfter(op) == IF op.side = "BUY" THEN bids_' ELSE asks_'

\* C9 (as claimed): delete_order subtracts qty from the level at price,
\* saturating at 0, and removes the level when it reaches 0.
C9_DeleteSaturates ==
    [][ (ops' = ops + 1 /\ last_op'.op = "delete_order") =>
            QuantityMap(SideAfter(last_op')) =
                SaturatingDelete(QuantityMap(SideBefore(last_op')),
                                 last_op'.price, last_op'.quantity)
      ]_vars

\* C10 (as claimed): modify_order reduces the level at old_price by
\* min(new_qty, its quantity), removes it at 0, then adds new_qty at
\* new_price as add_order would.
C10_ModifyReducesByMin ==
    [][ (ops' = ops + 1 /\ last_op'.op = "modify_order") =>
            QuantityMap(SideAfter(last_op')) =
                LET reduced ==
                        SaturatingDelete(QuantityMap(SideBefore(last_op')),
                                         last_op'.price, last_op'.quantity)
                    np == last_op'.new_price
                IN  [p \in (DOMAIN reduced) \cup {np} |->
                        IF p = np
                        THEN (IF p \in DOMAIN reduced THEN reduced[p] ELSE 0)
                             + last_op'.quantity
                        ELSE reduced[p]]
      ]_vars

\* C11: update_trade changes the statistics only: the bid levels, the ask
\* levels and the cached best bid/ask are the same before and after it.
C11_TradeFrame ==
    [][ (ops' = ops + 1 /\ last_op'.op = "update_trade") =>
            /\ UNCHANGED <<bids_, asks_, cached_best_bid_, cached_best_ask_>>
            /\ statistics_'.trade_count = statistics_.trade_count + 1
            /\ statistics_'.last_price = last_op'.trade.price
      ]_vars

\* A trade applied to a book that has levels on both sides.
C11_Witness == /\ last_op.op = "update_trade"
               /\ DOMAIN bids_ /= {}
               /\ DOMAIN asks_ /= {}
               /\ statistics_.trade_count = 1

\* The side update_quote leaves for a quoted price and size: one level when
\* both are > 0, no level otherwise.
QuoteSideIs(levels, price, size) ==
    IF price > 0 /\ size > 0
    THEN /\ DOMAIN levels = {price}
         /\ levels[price].price = price
         /\ levels[price].quantity = size
    ELSE DOMAIN levels = {}

\* C12: whatever levels existed before, after update_quote each side holds
\* exactly the quote's level for that side when its price and size are > 0
\* and no level otherwise, and the cached best prices are those prices (0
\* for an empty side).
C12_QuoteReplaces ==
    [][ (ops' = ops + 1 /\ last_op'.op = "update_quote") =>
            LET quote == last_op'.quote
            IN  /\ QuoteSideIs(bids_', quote.bid_price, quote.bid_size)
                /\ QuoteSideIs(asks_', quote.ask_price, quote.ask_size)
                /\ cached_best_bid_' =
                       (IF quote.bid_price > 0 /\ quote.bid_size > 0
                        THEN quote.bid_price ELSE 0)
                /\ cached_best_ask_' =
                       (IF quote.ask_price > 0 /\ quote.ask_size > 0
                        THEN quote.ask_price ELSE 0)
      ]_vars

\* A quote with a zero bid size applied as the last of MaxOps operations:
\* no bid level, one ask level.
C12_Witness == /\ last_op.op = "update_quote"
               /\ ops = MaxOps
               /\ last_op.quote.bid_price > 0
               /\ last_op.quote.bid_size = 0
               /\ DOMAIN bids_ = {}
               /\ DOMAIN asks_ = {MaxPrice}
               /\ cached_best_bid_ = 0
               /\ cached_best_ask_ = MaxPrice

\* The entries of a snapshot vector whose quantity is > 0.
SnapshotKept(snapshot) ==
    {snapshot[i] : i \in {j \in 1..Len(snapshot) : snapshot[j].quantity > 0}}

\* levels holds exactly the kept entries of snapshot, one per price.
SnapshotSideIs(levels, snapshot) ==
    /\ DOMAIN levels = {l.price : l \in SnapshotKept(snapshot)}
    /\ \A p \in DOMAIN levels :
           levels[p] \in {l \in SnapshotKept(snapshot) : l.price = p}

\* C13: after update_level2 each side contains exactly the snapshot entries
\* of that side whose quantity is > 0, one level per distinct price, and
\* none of the levels it had before.
C13_SnapshotReplaces ==
    [][ (ops' = ops + 1 /\ last_op'.op = "update_level2") =>
            /\ SnapshotSideIs(bids_', last_op'.bids)
            /\ SnapshotSideIs(asks_', last_op'.asks)
      ]_vars

\* A snapshot whose bid vector names one price twice, the second time with
\* quantity 0, applied as the last of MaxOps operations.
C13_Witness == /\ last_op.op = "update_level2"
               /\ ops = MaxOps
               /\ Len(last_op.bids) = 2
               /\ last_op.bids[1].price = last_op.bids[2].price
               /\ last_op.bids[1].quantity > 0
               /\ last_op.bids[2].quantity = 0
               /\ DOMAIN bids_ = {last_op.bids[1].price}
               /\ DOMAIN asks_ = {}

\* C14 (as claimed): process_message dispatches every message kind to the
\* symbol's book; in particular an applied ORDER_ADD message reaches
\* add_order, so the symbol has a book afterwards and its levels changed.
C14_DispatchesEveryKind ==
    [][ (apc = "process" /\ apc' = "loop" /\ c_item.type = "ORDER_ADD") =>
            /\ TheSymbol \in DOMAIN books_'
            /\ <<bids_', asks_'>> /= <<bids_, asks_>>
      ]_vars

RECURSIVE SumQuantities(_, _)
SumQuantities(levels, S) ==
    IF S = {} THEN 0
    ELSE LET p == CHOOSE x \in S : TRUE
         IN  levels[p].quantity + SumQuantities(levels, S \ {p})

TopBidVolume == SumQuantities(bids_, get_bids(ImbalanceDepth))
TopAskVolume == SumQuantities(asks_, get_asks(ImbalanceDepth))

\* C19 (as claimed): get_imbalance is (B - A) / (B + A) for the summed
\* quantities B and A of the top 5 bid and ask levels, 0 when B + A = 0,
\* so it lies in [-1, 1] and is negative whenever A > B.
C19_Imbalance ==
    LET r == get_imbalance
    IN  /\ (TopBidVolume + TopAskVolume = 0 => r.num = 0)
        /\ (TopBidVolume + TopAskVolume > 0 =>
                r.num * (TopBidVolume + TopAskVolume) =
                    (TopBidVolume - TopAskVolume) * r.den)
        /\ r.num <= r.den
        /\ 0 - r.den <= r.num
        /\ (TopAskVolume > TopBidVolume => r.num < 0)

(***************************************************************************)
(* Properties of the statistics (SpecStats).                               *)
(***************************************************************************)
RECURSIVE SumQuantity(_)
SumQuantity(trades) ==
    IF trades = << >> THEN 0
    ELSE Head(trades).quantity + SumQuantity(Tail(trades))

RECURSIVE SumValue(_)
SumValue(trades) ==
    IF trades = << >> THEN 0
    ELSE Head(trades).price * Head(trades).quantity + SumValue(Tail(trades))

TradePrices(trades) == {trades[i].price : i \in 1..Len(trades)}

\* C15: after a non-empty sequence of update_trade calls trade_count is the
\* number of trades, total_volume the sum of their quantities, last_price
\* the last price, open_price the first, high_price the maximum and
\* low_price the minimum of the prices, so low <= last <= high.
C15_TradeStatistics ==
    Len(trade_log) > 0 =>
        /\ statistics_.trade_count = Len(trade_log)
        /\ statistics_.total_volume = SumQuantity(trade_log)
        /\ statistics_.last_price = trade_log[Len(trade_log)].price
        /\ statistics_.open_price = trade_log[1].price
        /\ statistics_.high_price = SetMax(TradePrices(trade_log))
        /\ statistics_.low_price = SetMin(TradePrices(trade_log))
        /\ statistics_.low_price <= statistics_.last_price
        /\ statistics_.last_price <= statistics_.high_price

\* MaxTrades trades whose last price lies strictly between the low and the
\* high, with a quote applied in between.
C15_Witness == /\ Len(trade_log) = MaxTrades
               /\ ops = MaxTrades + 1
               /\ statistics_.low_price < statistics_.last_price
               /\ statistics_.last_price < statistics_.high_price
               /\ statistics_.open_price = statistics_.high_price

\* C16 (as claimed): with total volume > 0 the stored vwap is within one
\* tick of the exact volume-weighted average: vwap * total_volume differs
\* from the sum of price_i * quantity_i by at most one tick per unit of
\* volume.  Stated for the runs in which that sum fits the signed word, so
\* that no product or sum of the update has wrapped.
C16_VwapRoundTrip ==
    (statistics_.total_volume > 0 /\ SumValue(trade_log) < Word \div 2) =>
        LET stored == statistics_.vwap * statistics_.total_volume
            exact == SumValue(trade_log)
        IN  /\ stored - exact <= statistics_.total_volume
            /\ exact - stored <= statistics_.total_volume

\* C17 (as claimed): the VWAP update never wraps: the new vwap is the
\* quotient of vwap * total_volume + price * quantity by the new total
\* volume computed in unbounded arithmetic.
C17_VwapNoWraparound ==
    [][ (Len(trade_log') = Len(trade_log) + 1) =>
            LET trade == last_op'.trade
            IN  statistics_'.vwap =
                    (statistics_.vwap * statistics_.total_volume
                     + trade.price * trade.quantity)
                    \div (statistics_.total_volume + trade.quantity)
      ]_vars

(***************************************************************************)
(* Properties of the MPSCQueue (SpecMpsc).                                 *)
(***************************************************************************)
\* No other call on the queue is in progress while producer p is in its.
OnlyCaller(p) ==
    /\ mc_pc = "idle"
    /\ \A other \in MpscProducers \ {p} : mp_pc[other] = "idle"

\* C20 (as claimed): try_push succeeds whenever at least one of the Size
\* slots holds no item, also after earlier try_push calls failed on a full
\* queue.  Stated for the calls made while no other call is in progress:
\* when such a call returns false, every slot holds an item.
C20_PushSucceedsIfFree ==
    [][ \A p \in MpscProducers :
            (/\ mp_pc[p] = "cas"
             /\ mp_pc'[p] = "idle"
             /\ mpsc_push_false' = mpsc_push_false + 1
             /\ OnlyCaller(p)) =>
                \A i \in 0..(Size - 1) : mpsc_buffer_[i] /= nullptr
      ]_vars

\* The items are numbered in the order of the fetch-add on tail, so the
\* order of the reserved slot indices is the order of the item numbers.
InReservationOrder(items) ==
    \A i \in 1..Len(items) : \A j \in 1..Len(items) :
        i < j => items[i] < items[j]

\* C21 (as claimed): the consumer pops the accepted items in the order of
\* the slot indices reserved by the fetch-add on tail (so each producer's
\* items in the order it pushed them), also after a rejected try_push.
C21_PerSlotOrder == InReservationOrder(mpsc_popped)

(***************************************************************************)
(* Properties of dequeue_batch (SpecBatch).                                *)
(***************************************************************************)
\* The messages in the queue, oldest first.
QueueContents == [i \in 1..QueueSize |-> buffer_[Mask(head_ + i - 1)]]

\* No enqueue was in progress when the call began and none has begun since.
NoConcurrentEnqueue ==
    /\ b_start.idle
    /\ ppc = "idle"
    /\ p_next_seq = b_start.next_seq

\* C22: with no concurrent enqueue, dequeue_batch on a queue holding n
\* messages returns min(n, max_count), writes the oldest min(n, max_count)
\* messages into msgs in enqueue order and leaves the others in the queue
\* in their original order.
C22_DequeueBatch ==
    [][ (apc = "batch_return" /\ apc' = "batch_idle" /\ NoConcurrentEnqueue) =>
            LET k == Min2(b_start.n, b_max_count)
            IN  /\ b_count = k
                /\ b_msgs = SubSeq(pushed, b_start.popped + 1, b_start.popped + k)
                /\ QueueSize = b_start.n - k
                /\ QueueContents =
                       SubSeq(pushed, b_start.popped + k + 1, Len(pushed))
      ]_vars

\* A call with max_count 2 on a queue of 3 messages that lie across the
\* ring's wrap-around has returned 2 and left one message.
C22_Witness == /\ apc = "batch_idle"
               /\ NoConcurrentEnqueue
               /\ b_start.n = 3
               /\ b_start.popped >= 2
               /\ b_max_count = 2
               /\ b_count = 2
               /\ QueueSize = 1

C24_ErasesOnlyStale ==
    [][ \A t \in MgrThreads :
            (t_pc[t] = "erase" /\ t_pc'[t] = "idle") =>
                \A symbol \in (DOMAIN books_) \ (DOMAIN books_') :
                    last_update[books_[symbol]] < t_cutoff[t]
      ]_vars

(***************************************************************************)
(* C25: a thread that calls get_best_bid() and get_best_ask() while the    *)
(* aggregator mutates the book observes, on each side, only the initial 0  *)
(* or the best price of that side in a book as some mutation left it: the  *)
(* maps between two statements of a mutation (cleared by update_quote,     *)
(* or between modify_order's removal and its add) never show in the        *)
(* caches.                                                                 *)
(***************************************************************************)
C25_ReaderSeesCompletedBest ==
    /\ r_bid \in valid_bids
    /\ r_ask \in valid_asks
    /\ get_best_bid \in valid_bids
    /\ get_best_ask \in valid_asks

\* The reader has read the bid during a modify_order whose removal erased
\* the best bid and whose add has not run: it holds the erased price, and
\* the lower best bid of the maps as they are now was never published.
C25_Witness ==
    /\ w_pc = "add"
    /\ w_op.op = "modify_order"
    /\ w_op.side = "BUY"
    /\ r_at = [pc |-> "add", side |-> "BUY"]
    /\ r_bid = w_op.price
    /\ DOMAIN bids_ /= {}
    /\ SetMax(DOMAIN bids_) < r_bid
    /\ SetMax(DOMAIN bids_) \notin valid_bids

(***************************************************************************)
(* C26: every parse_message call either returns true and adds exactly 1    *)
(* to messages_parsed, or returns false and adds exactly 1 to              *)
(* parse_errors, so the two counters always sum to the number of calls;    *)
(* a frame shorter than 20 bytes or not starting with "8=FIX" is           *)
(* rejected.                                                               *)
(***************************************************************************)
C26_ParseCounts ==
    [][ /\ messages_parsed_ + parse_errors_ = fix_calls
        /\ messages_parsed_' + parse_errors_' = fix_calls'
        /\ fix_calls' /= fix_calls =>
             /\ fix_calls' = fix_calls + 1
             /\ fix_last'.op = "parse_message"
             /\ IF fix_last'.ret
                THEN /\ messages_parsed_' = messages_parsed_ + 1
                     /\ parse_errors_' = parse_errors_
                ELSE /\ messages_parsed_' = messages_parsed_
                     /\ parse_errors_' = parse_errors_ + 1
             /\ ( \/ Len(fix_last'.frame) < 20
                  \/ SubSeq(fix_last'.frame, 1, 5) /= <<56, 61, 70, 73, 88>> )
                => ~fix_last'.ret ]_vars

\* Three calls: one frame accepted, a short frame and a long enough frame
\* with another first byte rejected, the last call being the bad header.
C26_Witness ==
    /\ fix_calls = MaxParses
    /\ messages_parsed_ = 1
    /\ parse_errors_ = 2
    /\ fix_last.op = "parse_message"
    /\ ~fix_last.ret
    /\ Len(fix_last.frame) >= 20
    /\ fix_last.frame[1] /= 56

(***************************************************************************)
(* C27: what parse_message returns, and what get_field then returns for    *)
(* every tag, depend only on the frame: they are what a newly constructed  *)
(* parser gives for that frame, whatever was parsed or rejected before;    *)
(* after reset() get_field is absent for every tag.                        *)
(***************************************************************************)
FreshParser == [field_count_ |-> 0, fields_ |-> NoFields, tag_cache_ |-> EmptyCache]
CheckedTags == 0..(TagCacheSize - 1) \cup {TagCacheSize, 999}
Absent == [has_value |-> FALSE, value |-> << >>]

C27_OutcomeDependsOnFrame ==
    /\ fix_last.op = "parse_message" =>
         LET fresh == parse_message(FreshParser, fix_last.frame)
         IN  /\ fix_last.ret = fresh.ret
             /\ \A tag \in CheckedTags :
                    get_field(tag_cache_, tag) = get_field(fresh.parser.tag_cache_, tag)
    /\ fix_last.op = "reset" =>
         \A tag \in CheckedTags : get_field(tag_cache_, tag) = Absent

\* A frame accepted, then a frame rejected, then the first frame again:
\* the parser holds the first frame's fields.
C27_Witness ==
    /\ fix_calls = MaxParses
    /\ messages_parsed_ = 2
    /\ parse_errors_ = 1
    /\ fix_last = [op |-> "parse_message", frame |-> OtherFrame, ret |-> TRUE]
    /\ get_field(tag_cache_, 35) = [has_value |-> TRUE, value |-> <<87>>]
    /\ get_field(tag_cache_, 56) = Absent
    /\ fields_[MAX_FIELDS - 1].tag = 999

(***************************************************************************)
(* C28: a frame with more fields than fields_ can hold is rejected:        *)
(* parse_message returns false (and counts a parse error) instead of       *)
(* accepting the frame with only its first MAX_FIELDS fields.              *)
(***************************************************************************)
\* The number of SOH-terminated fields of a frame.
NumFields(frame) == Cardinality({i \in 1..Len(frame) : frame[i] = SOH})

C28_TooManyFieldsRejected ==
    ( /\ fix_last.op = "parse_message"
      /\ NumFields(fix_last.frame) > MAX_FIELDS )
    => ( /\ ~fix_last.ret
         /\ parse_errors_ > 0 )

(***************************************************************************)
(* C29: a frame with a malformed field (no '=' after the tag, a tag that   *)
(* is not a number, or no SOH after the value) is rejected, also when      *)
(* well-formed fields precede the malformed one.                           *)
(***************************************************************************)
\* Every field from pos on is digits, '=', a value without SOH, then SOH.
RECURSIVE WellFormedFrom(_, _)
WellFormedFrom(frame, pos) ==
    IF pos > Len(frame) THEN TRUE
    ELSE LET soh_pos == find(frame, SOH, pos)
             eq_pos == find(frame, EQ, pos)
         IN  /\ soh_pos /= npos
             /\ eq_pos /= npos
             /\ pos < eq_pos
             /\ eq_pos < soh_pos
             /\ \A i \in pos..(eq_pos - 1) : IsDigit(frame[i])
             /\ WellFormedFrom(frame, soh_pos + 1)

C29_MalformedFieldRejected ==
    ( /\ fix_last.op = "parse_message"
      /\ ~WellFormedFrom(fix_last.frame, 1) )
    => ( /\ ~fix_last.ret
         /\ parse_errors_ > 0 )

(***************************************************************************)
(* C30: a frame whose trailer 10=NNN is the sum of the preceding bytes     *)
(* modulo 256 passes validate_checksum, and the same frame with one bit    *)
(* of its payload flipped fails it.                                        *)
(***************************************************************************)
C30_ChecksumDetectsBitFlip ==
    fix_last.op = "validate_checksum" =>
        fix_last.ret = (fix_last.frame = fix_last.built)

(***************************************************************************)
(* C31: update_latency(sample) adds 1 to messages_processed, makes         *)
(* avg_latency_ns floor((15 * avg_old + sample) / 16) and changes          *)
(* max_latency_ns only when sample is greater; max_latency_ns never        *)
(* decreases and is the largest sample recorded, also when several         *)
(* threads call update_latency at once.  The first three are stated for a  *)
(* call no other call overlaps.                                            *)
(***************************************************************************)
LargestRecorded(samples) == IF samples = {} THEN 0 ELSE SetMax(samples)

C31_UpdateLatency ==
    [][ /\ max_latency_ns' >= max_latency_ns
        /\ (\A u \in MetricThreads : ul_pc'[u] = "idle") =>
             /\ max_latency_ns' = LargestRecorded(ul_recorded')
             /\ messages_processed' = ul_calls'
        /\ \A t \in MetricThreads :
             (ul_pc[t] = "loop" /\ ul_pc'[t] = "idle" /\ ul_alone[t]) =>
               /\ messages_processed' = ul_entry[t].messages_processed + 1
               /\ avg_latency_ns' =
                    (15 * ul_entry[t].avg_latency_ns + ul_sample[t]) \div 16
               /\ max_latency_ns' = Max2(ul_entry[t].max_latency_ns, ul_sample[t])
      ]_vars

(***************************************************************************)
(* C32: once stop() has cleared running_, the processing loop begins no    *)
(* further iteration - the next time it reads the flag it exits - and      *)
(* stop() returns, whatever the queue holds and whatever the producer      *)
(* does.                                                                   *)
(***************************************************************************)
C32_StopTerminates ==
    /\ [][(mpc = "joining" /\ apc = "loop") => apc' \in {"loop", "exited"}]_vars
    /\ (mpc = "joining") ~> (mpc = "stopped")

\* stop() has returned with messages left in the queue and the producer
\* in the middle of an enqueue.
C32_Witness ==
    /\ mpc = "stopped"
    /\ apc = "exited"
    /\ QueueSize > 0
    /\ ppc /= "idle"
    /\ Len(applied) > 0

(***************************************************************************)
(* C33: a thread other than the aggregator reads the fields of a book's    *)
(* statistics only with stats_mutex_ held, so never while update_trade     *)
(* is applying a trade, and the total_volume and trade_count it reads      *)
(* are those of the statistics after a whole number of trades.             *)
(***************************************************************************)
C33_StatsReadUnderMutex ==
    /\ ~sr_in_update
    /\ sr_pc = "idle" => sr_volume = sr_count * MaxQty

(***************************************************************************)
(* C34: get_bids and get_asks (and get_imbalance, get_weighted_mid and     *)
(* to_json, which call them) never read the level maps while the           *)
(* aggregator is inside a mutation of the book: not after update_quote or  *)
(* update_level2 has cleared the maps and before it has filled them, and   *)
(* not between modify_order's removal and its add.                         *)
(***************************************************************************)
C34_DepthReadsExcluded ==
    /\ d_at.pc /= "insert"
    /\ ~(d_at.pc = "add" /\ d_at.op = "modify_order")

\* C35: the consumer reads a slot only after the producer's write of it is
\* complete (at its read step the slot holds the oldest accepted item not
\* yet popped, and the producer is not writing that slot), and the producer
\* overwrites a slot only after its previous item was moved out (at its write
\* step the slot holds no accepted item that is still to be popped, and the
\* consumer is not reading that slot).
C35_SlotHandOff ==
    /\ cpc = "read" =>
          /\ Len(pushed) > Len(popped)
          /\ buffer_[c_current_head] = pushed[Len(popped) + 1]
          /\ ~(ppc = "write" /\ p_current_tail = c_current_head)
    /\ ppc = "write" =>
          /\ \A i \in (Len(popped) + 1)..Len(pushed) :
                buffer_[p_current_tail] /= pushed[i]
          /\ ~(cpc \in {"read", "store"} /\ c_current_head = p_current_tail)

\* The producer is about to overwrite a slot of the ring's second lap while
\* the consumer is about to read another slot.
C35_Witness ==
    /\ ppc = "write"
    /\ cpc = "read"
    /\ Len(pushed) >= Size
    /\ p_current_tail /= c_current_head

\* C36: a call of size() from a third thread returns a count the queue had
\* at some instant during the call, and a call of empty() answers what was
\* true at some instant during the call; in particular neither reports
\* 0 / empty for a queue that held an item throughout the call.
C36_StatusIsSomeInstant ==
    /\ (s_pc = "idle" /\ s_result.call = "size") =>
          s_result.value \in s_counts
    /\ (s_pc = "idle" /\ s_result.call = "empty") =>
          \E c \in s_counts : s_result.value = (c = 0)

\* C37: once every try_push in flight has completed, a try_pop of the
\* MPSCQueue returns false only when the queue holds no item (every accepted
\* item has been popped), so a polling consumer gets every accepted item
\* without a further push.
C37_PopFalseOnlyWhenEmpty ==
    [][(/\ mc_pc = "exchange"
        /\ mc_pc' = "idle"
        /\ \A p \in MpscProducers : mp_pc[p] = "idle")
       => Len(mpsc_pushed) = Len(mpsc_popped)]_vars

\* C38: no thread uses an OrderBook after it was erased from the manager: a
\* pointer got from get_or_create_book or get_book is never dereferenced
\* after remove_book or clear_stale_books destroyed the book.
C38_NoUseAfterErase == ~use_after_erase

\* C39: whenever no manager operation is in progress, get_symbol_count()
\* (active_symbols_) equals the number of books in the manager's map.
C39_SymbolCountMatchesBooks ==
    (\A t \in MgrThreads : t_pc[t] = "idle")
        => active_symbols_ = Cardinality(DOMAIN books_)

\* The level map of one side of the book.
SideLevels(bids, asks, side) == IF side = "BUY" THEN bids ELSE asks

\* C40: a level's order_count counts the add_order calls that contributed
\* to it minus the delete_order reductions applied to it: an add_order that
\* creates the level leaves order_count 1, an add_order on a level that
\* exists raises its order_count by one, and a delete_order that reduces a
\* level and leaves it in the book lowers its order_count by one.
C40_OrderCountCountsOrders ==
    [][LET op == last_op'
           before == SideLevels(bids_, asks_, op.side)
           after == SideLevels(bids_', asks_', op.side)
       IN  /\ (ops' = ops + 1 /\ op.op = "add_order") =>
                 after[op.price].order_count =
                     IF op.price \in DOMAIN before
                     THEN before[op.price].order_count + 1
                     ELSE 1
           /\ (/\ ops' = ops + 1
               /\ op.op = "delete_order"
               /\ op.price \in DOMAIN before
               /\ op.price \in DOMAIN after
               /\ before[op.price].quantity >= op.quantity
               /\ before[op.price].order_count > 0) =>
                 after[op.price].order_count =
                     before[op.price].order_count - 1]_vars
====
